---- MODULE Spec2Model ----
(***************************************************************************)
(* Order finalization and inventory reservation of the Earth/Co storefront *)
(* backend: immediate checkout (routes/orders.ts), deferred checkout,      *)
(* finalizeStripeOrder, the webhook compensator and the confirm endpoint   *)
(* (routes/stripe.ts), admin product update (routes/admin.ts).             *)
(*                                                                         *)
(* The datastore is PostgreSQL at its default isolation (read committed):  *)
(* a read sees the committed rows; a conditional update (updateMany)       *)
(* waits while another open transaction holds the row, then evaluates its  *)
(* condition on the committed row; the writes of a prisma.$transaction     *)
(* callback become visible together at commit and are discarded when the   *)
(* callback throws.  The committed rows are stock, price, cart and orders; *)
(* the uncommitted writes of an open transaction are the pend and claimed  *)
(* fields of its request, and a row is locked by the request that has an   *)
(* uncommitted write to it.                                                *)
(***************************************************************************)
EXTENDS Integers, FiniteSets, Sequences, TLC

\* Product ids (Product.id is an autoincrement integer); lines are taken in id order.
Products == {1, 2}
Owners == {"u1", "u2"}
\* Checkout requests; the order a request creates is identified by the request,
\* and so is the provider session a deferred checkout creates.
Buyers == {"b1", "b2"}
\* Finalization requests: webhook deliveries and confirm calls.
Callers == {"f1", "f2"}
Procs == Buyers \cup Callers

\* Largest stock of a product.
MaxStock == 2
\* Number of admin stock edits in one behaviour.
MaxAdminEdits == 1
\* Number of items added to the carts in one behaviour.
MaxCartAdds == 1
\* ORDER_CODE_MAX_ATTEMPTS
ORDER_CODE_MAX_ATTEMPTS == 5

NoUser == "nobody"
NoOrder == [status |-> "NONE"]
NoProduct == 0
Zero == [p \in Products |-> 0]

VARIABLES
  stock,      \* Product.stock, committed
  price,      \* Product.price, committed
  cart,       \* CartItem rows, committed: cart[o][p] is the quantity, 0 for no row
  orders,     \* Order rows with their lines, committed, by creating request
  sessions,   \* provider sessions created by checkout-session
  refunds,    \* refund requests sent to the provider
  proc,       \* the requests: position, locals, uncommitted writes
  reserved,   \* history: quantity of each product taken by committed reservations
  initStock,  \* history: the stock each product started with
  finDec,     \* history: per session, quantity taken by committed finalizations
  finClears,  \* history: per session, cart clears done by committed finalizations
  adminEdits, \* history: number of admin stock edits so far
  cartAdds,   \* history: per owner and product, items added to the cart so far
  quote,      \* a subtotal and the shipping computed for it
  lineItems,  \* the line items of the provider sessions created
  deleted,    \* Product rows deleted
  del,        \* the admin delete request: position, product, answer
  options,    \* the rate limiter's options: windowMs and max
  entries,    \* the rate limiter's Map: per key, count and resetAt
  now,        \* Date.now()
  reply,      \* the rate limiter's answer to the latest request
  windows     \* history: per key, its window's opening, the requests passed in it, refusals

vars == <<stock, price, cart, orders, sessions, refunds, proc, reserved,
          initStock, finDec, finClears, adminEdits, cartAdds, quote,
          lineItems, deleted, del, options, entries, now, reply, windows>>

\* The variables of the admin delete and those of the rate limiter.
deleteVars == <<deleted, del>>
limiterVars == <<options, entries, now, reply, windows>>

RECURSIVE SumOver(_, _)
SumOver(S, f) ==
  IF S = {} THEN 0
  ELSE LET x == CHOOSE y \in S : TRUE IN f[x] + SumOver(S \ {x}, f)

\* Bug: free shipping from 250 on, not above 250.
computeShipping_FreeFrom250(subtotal) == IF subtotal >= 250 \/ subtotal = 0 THEN 0 ELSE 12

\* computeShipping
computeShipping(subtotal) == IF subtotal > 250 \/ subtotal = 0 THEN 0 ELSE 12

\* The largest subtotal a shipping quote is computed for.
MaxSubtotal == 300
NoShipping == -1
NoQuote == [subtotal |-> 0, shipping |-> NoShipping]

\* No line items: the session of a request that created none.
NoItems == [products |-> [p \in Products |-> [quantity |-> 0, unit_amount |-> 0]],
            shipping |-> <<>>]

\* The admin delete request before it arrives.
NoDelete == [pc |-> "idle", product |-> NoProduct, out |-> "none"]

\* The rate limiter: its keys, an absent Map entry, and no answer yet.
Keys == {"k1", "k2"}
NoEntry == [count |-> 0, resetAt |-> 0]
NoReply == [key |-> "none", passed |-> FALSE, status |-> 0, retryAfter |-> 0,
            at |-> 0]
NoWindow == [open |-> FALSE, openedAt |-> 0, admitted |-> 0, refused |-> FALSE]
DefaultOptions == [windowMs |-> 1000, max |-> 1]

\* Order codes. createOrderCode draws 8 random bytes; the codes that matter
\* are the code of an order stored before and two more.
Codes == {"EC-0", "EC-1", "EC-2"}
OldCodes == {"EC-0"}
\* The attempts of createOrderWithRetry, numbered as in its loop.
AttemptIndexes == 0 .. (ORDER_CODE_MAX_ATTEMPTS - 1)

\* A store error other than an orderCode conflict, met by the insert of one
\* attempt (the first or the last): a uniqueness violation on
\* stripeSessionId, or any other error.
NoFault == [at |-> -1, kind |-> "none"]
Faults ==
  {NoFault} \cup
  {[at |-> a, kind |-> k] : a \in {0, ORDER_CODE_MAX_ATTEMPTS - 1},
                            k \in {"P2002session", "other"}}

\* Bug: the insert does not check the orderCode against the stored codes.
InsertOutcome_NoConstraint(stored, gen, fault, attempt) ==
  IF fault.at = attempt THEN fault.kind ELSE "created"

\* tx.order.create with the code generated for this attempt, gen[attempt]:
\* the store error met, or P2002 on orderCode when the code is stored (the
\* column is unique), or the order is created.
InsertOutcome(stored, gen, fault, attempt) ==
  IF fault.at = attempt THEN fault.kind
  ELSE IF gen[attempt] \in stored THEN "P2002"
  ELSE "created"

\* Bug: every uniqueness violation counts as an order-code conflict.
isOrderCodeConflict_AnyField(outcome) == outcome \in {"P2002", "P2002session"}

\* isOrderCodeConflict: code P2002 and meta.target includes "orderCode"
isOrderCodeConflict(outcome) == outcome = "P2002"

\* Bug: the last retry is given up one attempt early.
RetriesAfter_OneShort(outcome, attempt) ==
  isOrderCodeConflict(outcome) /\ attempt < ORDER_CODE_MAX_ATTEMPTS - 2

\* isOrderCodeConflict(error) && attempt < ORDER_CODE_MAX_ATTEMPTS - 1
RetriesAfter(outcome, attempt) ==
  isOrderCodeConflict(outcome) /\ attempt < ORDER_CODE_MAX_ATTEMPTS - 1

\* Bug: the error of the last attempt is replaced by the dedicated one.
ThrownError_Dedicated(outcome, attempt) ==
  IF isOrderCodeConflict(outcome) THEN "unable" ELSE outcome

\* throw error: the error the catch block of this attempt throws.
ThrownError(outcome, attempt) == outcome

\* createOrderWithRetry: the loop from this attempt on. Whether an order is
\* created and with which code, the number of inserts attempted, each with
\* the code generated for it, and the error thrown. After the loop lastError
\* is thrown if it is an Error, else HttpError(500, "Unable to generate a
\* unique order code.").
RECURSIVE createOrderWithRetry(_, _, _, _)
createOrderWithRetry(stored, gen, fault, attempt) ==
  IF attempt >= ORDER_CODE_MAX_ATTEMPTS
  THEN [created |-> FALSE, attempts |-> attempt, code |-> "none",
        error |-> IF attempt > 0 THEN "P2002" ELSE "unable"]
  ELSE LET outcome == InsertOutcome(stored, gen, fault, attempt) IN
       IF outcome = "created"
       THEN [created |-> TRUE, attempts |-> attempt + 1, code |-> gen[attempt],
             error |-> "none"]
       ELSE IF RetriesAfter(outcome, attempt)
       THEN createOrderWithRetry(stored, gen, fault, attempt + 1)
       ELSE [created |-> FALSE, attempts |-> attempt + 1, code |-> "none",
             error |-> ThrownError(outcome, attempt)]

\* The codes a request generates: its own new code at every attempt, or the
\* stored code at every attempt.
FreshCode(b) == IF b = "b1" THEN "EC-1" ELSE "EC-2"
GenCases(b) == { [a \in AttemptIndexes |-> FreshCode(b)], [a \in AttemptIndexes |-> "EC-0"] }
\* Every run of generated codes that makes a difference: the code stored
\* before generated k times, then another code.
AllGenCases ==
  { [a \in AttemptIndexes |-> IF a < k THEN "EC-0" ELSE d] :
      k \in 0 .. ORDER_CODE_MAX_ATTEMPTS, d \in Codes }

\* Bug: the subtotal adds each line's price once, whatever its quantity.
Subtotal_IgnoresQuantity(lines, unit) ==
  SumOver(Products, [p \in Products |-> IF lines[p] > 0 THEN unit[p] ELSE 0])

\* subtotal = cartItems.reduce((sum, item) => sum + item.product.price * item.quantity, 0)
Subtotal(lines, unit) == SumOver(Products, [p \in Products |-> unit[p] * lines[p]])

\* The carts the owners hold initially.
InitCarts1 == { [p \in Products |-> IF p = 1 THEN 1 ELSE 0],
                [p \in Products |-> 1] }
InitCarts2 == { [p \in Products |-> IF p = 1 THEN 1 ELSE 0],
                [p \in Products |-> IF p = 2 THEN 2 ELSE 0] }

Idle == [pc |-> "idle", kind |-> "none", owner |-> NoUser, sid |-> "none",
         lines |-> Zero, unit |-> Zero, pend |-> Zero, claimed |-> FALSE,
         res |-> "none", began |-> "NONE", won |-> FALSE, pi |-> FALSE,
         out |-> "none", attempts |-> 0, err |-> "none",
         gen |-> [a \in AttemptIndexes |-> "none"], fault |-> NoFault,
         sig |-> "none", named |-> NoProduct, payment |-> "none"]

Init ==
  /\ stock \in [Products -> 0..MaxStock]
  /\ price = [p \in Products |-> IF p = 1 THEN 100 ELSE 200]
  /\ \E c1 \in InitCarts1, c2 \in InitCarts2 :
       cart = [o \in Owners |-> IF o = "u1" THEN c1 ELSE c2]
  /\ orders = [b \in Buyers |-> NoOrder]
  /\ sessions = {}
  /\ refunds = {}
  /\ proc = [t \in Procs |-> Idle]
  /\ reserved = Zero
  /\ initStock = stock
  /\ finDec = [b \in Buyers |-> Zero]
  /\ finClears = [b \in Buyers |-> 0]
  /\ adminEdits = 0
  /\ cartAdds = [o \in Owners |-> Zero]
  /\ quote = NoQuote
  /\ lineItems = [b \in Buyers |-> NoItems]
  /\ deleted = {}
  /\ del = NoDelete
  /\ options = DefaultOptions
  /\ entries = [k \in Keys |-> NoEntry]
  /\ now = 0
  /\ reply = NoReply
  /\ windows = [k \in Keys |-> NoWindow]

----------------------------------------------------------------------------
\* Row locks of open transactions.

\* Product row p carries an uncommitted decrement of a transaction other than t's.
ProductLocked(p, t) == \E u \in Procs \ {t} : proc[u].pend[p] > 0

\* Order row s carries an uncommitted status claim of a transaction other than t's.
OrderLocked(s, t) == \E u \in Procs \ {t} : proc[u].claimed /\ proc[u].sid = s

\* The next line of a loop over the lines: the first one not yet reserved.
Remaining(t) == {p \in Products : proc[t].lines[p] > 0 /\ proc[t].pend[p] = 0}
NextLine(t) == CHOOSE p \in Remaining(t) : \A q \in Remaining(t) : p <= q

\* Bug: the decrement is not guarded by stock >= quantity.
StockUpdateCount_Unguarded(p, q) == 1

\* The conditional decrement: updateMany where id and stock >= quantity; its
\* count. A deleted product matches no row.
StockUpdateCount(p, q) == IF p \notin deleted /\ stock[p] >= q THEN 1 ELSE 0

\* What the transaction's decrements leave of the committed stock.
StockAfter(pd) == [p \in Products |-> stock[p] - pd[p]]

\* Bug: the decrements of the lines already reserved survive the failure.
RolledBack_KeepsStock(r) == [r EXCEPT !.claimed = FALSE]

\* Bug: the status claim survives the failure.
RolledBack_KeepsClaim(r) == [r EXCEPT !.pend = Zero]

\* The rollback of a transaction: none of its writes survives.
RolledBack(r) == [r EXCEPT !.pend = Zero, !.claimed = FALSE]

\* Bug: the delete leaves the cart as it is.
CartAfterDelete_Nothing(c, o) == c

\* Bug: the delete has no where clause and empties every cart.
CartAfterDelete_Everyone(c, o) == [x \in Owners |-> Zero]

\* cartItem.deleteMany({where: {userId}}): the carts after it.
CartAfterDelete(c, o) == [c EXCEPT ![o] = Zero]

\* A request that has answered keeps its result and drops its locals.
Done(r, result) ==
  [r EXCEPT !.pc = "done", !.res = result, !.lines = Zero, !.unit = Zero]

\* Requests are numbered in the order in which they arrive.
Earlier(t) == IF t = "b2" THEN {"b1"} ELSE IF t = "f2" THEN {"f1"} ELSE {}
Arrives(t) == proc[t].pc = "idle" /\ \A e \in Earlier(t) : proc[e].pc # "idle"

----------------------------------------------------------------------------
\* Immediate checkout: router.post("/checkout")

\* Bug: no line is compared with the stock before the order is created.
InsufficientLines_Unchecked(c) == {}

\* The cart items whose quantity exceeds the product's stock as read.
InsufficientLines(c) == {p \in Products : stock[p] < c[p]}

\* The product the pre-check's error names: that of the first item the loop
\* finds insufficient, the items coming in the order findMany returns them,
\* which the query does not fix.
NamedChoices(c) ==
  IF c = Zero \/ InsufficientLines(c) = {} THEN {NoProduct} ELSE InsufficientLines(c)

CheckoutBegin(b, o) ==
  /\ Arrives(b)
  /\ LET r == [proc[b] EXCEPT !.kind = "immediate", !.owner = o] IN
     \E p \in NamedChoices(cart[o]) :
       proc' = [proc EXCEPT ![b] =
         IF cart[o] = Zero THEN Done(r, "empty")
         ELSE IF InsufficientLines(cart[o]) # {}
         THEN [Done(r, "insufficient") EXCEPT !.named = p]
         ELSE [r EXCEPT !.pc = "reserve", !.lines = cart[o], !.unit = price]]
  /\ UNCHANGED <<stock, price, cart, orders, sessions, refunds, reserved,
                 initStock, finDec, finClears, adminEdits, cartAdds, quote,
                 lineItems, deleteVars, limiterVars>>

\* The orderCode values stored: those of the orders stored before and of the
\* orders the requests have created.
StoredCodes == OldCodes \cup {orders[a].code : a \in {x \in Buyers : orders[x] # NoOrder}}

\* What a checkout answers when createOrderWithRetry threw, by the error.
CreateFailure(c) == IF c.error \in {"P2002", "unable"} THEN "conflict" ELSE "error"

\* A checkout that has called createOrderWithRetry keeps what the call met
\* and what it did.
Created(r, c, gen, fault) ==
  [Done(r, IF c.created THEN "created" ELSE CreateFailure(c)) EXCEPT
     !.attempts = c.attempts, !.err = c.error, !.gen = gen, !.fault = fault]

PlacedOrder(r, code) ==
  LET sub == Subtotal(r.lines, r.unit) IN
  [status |-> "PLACED", owner |-> r.owner, lines |-> r.lines, unit |-> r.unit,
   session |-> "none", subtotal |-> sub, shipping |-> computeShipping(sub),
   total |-> sub + computeShipping(sub), code |-> code]

CheckoutReserve(b, gen, fault) ==
  /\ proc[b].pc = "reserve"
  /\ proc[b].kind = "immediate"
  /\ LET r == proc[b]
         p == NextLine(b)
         pd == [r.pend EXCEPT ![p] = r.lines[p]]
         c == createOrderWithRetry(StoredCodes, gen, fault, 0)
     IN
     /\ ~ProductLocked(p, b)
     /\ IF StockUpdateCount(p, r.lines[p]) = 0
        THEN /\ proc' = [proc EXCEPT ![b] = Done(RolledBack(r), "outofstock")]
             /\ UNCHANGED <<stock, cart, orders, reserved>>
        ELSE IF Remaining(b) # {p}
        THEN /\ proc' = [proc EXCEPT ![b].pend = pd]
             /\ UNCHANGED <<stock, cart, orders, reserved>>
        ELSE IF ~c.created
        THEN /\ proc' = [proc EXCEPT ![b] = Created(RolledBack(r), c, gen, fault)]
             /\ UNCHANGED <<stock, cart, orders, reserved>>
        ELSE /\ stock' = StockAfter(pd)
             /\ orders' = [orders EXCEPT ![b] = PlacedOrder(r, c.code)]
             /\ cart' = CartAfterDelete(cart, r.owner)
             /\ reserved' = [q \in Products |-> reserved[q] + pd[q]]
             /\ proc' = [proc EXCEPT ![b] = Created(RolledBack(r), c, gen, fault)]
  /\ UNCHANGED <<price, sessions, refunds, initStock, finDec, finClears, adminEdits, cartAdds, quote,
                 lineItems, deleteVars, limiterVars>>

----------------------------------------------------------------------------
\* Deferred checkout: router.post("/checkout-session")

\* Bug: the amounts are sent in dollars, not in cents.
SessionLineItems_InDollars(lines, unit) ==
  LET shipping == computeShipping(Subtotal(lines, unit)) IN
  [products |-> [p \in Products |-> [quantity |-> lines[p], unit_amount |-> unit[p]]],
   shipping |-> IF shipping > 0
                THEN <<[quantity |-> 1, unit_amount |-> shipping]>>
                ELSE <<>>]

\* line_items of stripe.checkout.sessions.create: one per cart item, with
\* unit_amount = price * 100 (a product not in the cart has quantity 0 here),
\* and a shipping item of quantity 1 when shipping > 0.
SessionLineItems(lines, unit) ==
  LET shipping == computeShipping(Subtotal(lines, unit)) IN
  [products |-> [p \in Products |-> [quantity |-> lines[p], unit_amount |-> unit[p] * 100]],
   shipping |-> IF shipping > 0
                THEN <<[quantity |-> 1, unit_amount |-> shipping * 100]>>
                ELSE <<>>]

SessionBegin(b, o) ==
  /\ Arrives(b)
  /\ LET r == [proc[b] EXCEPT !.kind = "deferred", !.owner = o] IN
     IF cart[o] = Zero
     THEN /\ proc' = [proc EXCEPT ![b] = Done(r, "empty")]
          /\ UNCHANGED <<sessions, lineItems>>
     ELSE IF InsufficientLines(cart[o]) # {}
     THEN /\ \E p \in NamedChoices(cart[o]) :
               proc' = [proc EXCEPT ![b] = [Done(r, "insufficient") EXCEPT !.named = p]]
          /\ UNCHANGED <<sessions, lineItems>>
     ELSE /\ proc' = [proc EXCEPT ![b] =
                 [r EXCEPT !.pc = "create", !.lines = cart[o], !.unit = price]]
          /\ sessions' = sessions \cup {b}
          /\ lineItems' = [lineItems EXCEPT ![b] = SessionLineItems(cart[o], price)]
  /\ UNCHANGED <<stock, price, cart, orders, refunds, reserved, initStock,
                 finDec, finClears, adminEdits, cartAdds, quote,
                 deleteVars, limiterVars>>

\* Bug: the order is created without a status and gets the default, PLACED.
PendingOrder_DefaultStatus(r, s, code) == [PlacedOrder(r, code) EXCEPT !.session = s]

PendingOrder(r, s, code) ==
  LET sub == Subtotal(r.lines, r.unit) IN
  [status |-> "PENDING_PAYMENT", owner |-> r.owner, lines |-> r.lines,
   unit |-> r.unit, session |-> s, subtotal |-> sub,
   shipping |-> computeShipping(sub), total |-> sub + computeShipping(sub),
   code |-> code]

\* lines.create with product: {connect: {id}}: the insert fails at once when
\* a line's product has been deleted.
ConnectFault(lines, fault) ==
  IF \E p \in deleted : lines[p] > 0 THEN [at |-> 0, kind |-> "other"] ELSE fault

SessionCreateOrder(b, gen, fault) ==
  /\ proc[b].pc = "create"
  /\ LET c == createOrderWithRetry(StoredCodes, gen, ConnectFault(proc[b].lines, fault), 0) IN
     /\ orders' = IF c.created
                  THEN [orders EXCEPT ![b] = PendingOrder(proc[b], b, c.code)]
                  ELSE orders
     /\ proc' = [proc EXCEPT ![b] = Created(proc[b], c, gen, fault)]
  /\ UNCHANGED <<stock, price, cart, sessions, refunds, reserved, initStock,
                 finDec, finClears, adminEdits, cartAdds, quote,
                 lineItems, deleteVars, limiterVars>>

----------------------------------------------------------------------------
\* finalizeStripeOrder(sessionId, userId?), called by the webhook (no userId)
\* and by the confirm endpoint (the authenticated user's id).

\* The order read by stripeSessionId: sessions are identified by the request
\* that created them, and so are the orders.
OrderOfSession(s) == orders[s]

\* The status a call returns to its caller when it returns an order.
Returned(r) == r.res \in {"PENDING_PAYMENT", "PLACED", "FULFILLED", "CANCELLED"}

\* Bug: the webhook compensates on every error of finalizeStripeOrder.
AfterThrow_AnyError(r, result) ==
  IF r.kind = "webhook"
  THEN [Done(r, result) EXCEPT !.pc = "refund"]
  ELSE [Done(r, result) EXCEPT !.out = "error"]

\* What a handler answers once finalizeStripeOrder threw: the webhook
\* compensates on a 400 or 409 and passes any other error on; confirm passes
\* every error on.
AfterThrow(r, result) ==
  IF r.kind = "webhook" /\ result = "outofstock"
  THEN [Done(r, result) EXCEPT !.pc = "refund"]
  ELSE [Done(r, result) EXCEPT !.out = "error"]

\* What a handler answers once finalizeStripeOrder returned an order.
AfterReturn(r, status) ==
  [Done(r, status) EXCEPT !.out =
     IF r.kind = "webhook" THEN "received"
     ELSE IF status \in {"PLACED", "FULFILLED"} THEN "paid" ELSE "notpaid"]

\* Bug: the expected owner is not compared with the order's.
OwnerMismatch_Ignored(existingOrder, u) == FALSE

\* userId && existingOrder.userId !== userId
OwnerMismatch(existingOrder, u) == u # NoUser /\ existingOrder.owner # u

\* Bug: a FULFILLED order is not returned as it is.
ShortCircuits_NotFulfilled(status) == status \in {"PLACED", "CANCELLED"}

\* The statuses on which the call returns the order it read: PLACED or
\* FULFILLED, and CANCELLED.
ShortCircuits(status) == status \in {"PLACED", "FULFILLED"} \/ status = "CANCELLED"

\* Bug: the quantities to reserve are read from the owner's cart.
LinesToReserve_FromCart(existingOrder) == cart[existingOrder.owner]

\* The quantities the stock loop reserves: those of existingOrder.lines.
LinesToReserve(existingOrder) == existingOrder.lines

\* The request r once its handler has called finalizeStripeOrder(s, u) and the
\* call has read the order: thrown, returned, or about to claim.
Finalizing(r0, s, u) ==
  LET existingOrder == OrderOfSession(s)
      r == [r0 EXCEPT !.kind = IF u = NoUser THEN "webhook" ELSE "confirm",
                      !.owner = u, !.sid = s,
                      !.began = existingOrder.status]
  IN
  IF existingOrder = NoOrder \/ OwnerMismatch(existingOrder, u)
  THEN AfterThrow(r, "notfound")
  ELSE IF ShortCircuits(existingOrder.status)
  THEN AfterReturn(r, existingOrder.status)
  ELSE [r EXCEPT !.pc = "claim", !.lines = LinesToReserve(existingOrder)]

FinalizeBegin(f, s, u) ==
  /\ Arrives(f)
  /\ proc' = [proc EXCEPT ![f] = Finalizing(proc[f], s, u)]
  /\ UNCHANGED <<stock, price, cart, orders, sessions, refunds, reserved,
                 initStock, finDec, finClears, adminEdits, cartAdds, quote,
                 lineItems, deleteVars, limiterVars>>

\* Bug: the status update is not guarded by status = PENDING_PAYMENT.
TransitionCount_Unguarded(s) == 1

\* The claim: updateMany where id and status = PENDING_PAYMENT; its count.
TransitionCount(s) == IF orders[s].status = "PENDING_PAYMENT" THEN 1 ELSE 0

\* Bug: a call that lost the claim returns the order it read first.
LosingReturn_Stale(f) == proc[f].began

\* What a call that lost the claim returns: the order as re-read (latest).
LosingReturn(f) == orders[proc[f].sid].status

FinalizeClaim(f) ==
  /\ proc[f].pc = "claim"
  /\ ~OrderLocked(proc[f].sid, f)
  /\ proc' = [proc EXCEPT ![f] =
       IF TransitionCount(proc[f].sid) = 0
       THEN AfterReturn(proc[f], LosingReturn(f))
       ELSE [proc[f] EXCEPT !.pc = "reserve", !.claimed = TRUE, !.won = TRUE]]
  /\ UNCHANGED <<stock, price, cart, orders, sessions, refunds, reserved,
                 initStock, finDec, finClears, adminEdits, cartAdds, quote,
                 lineItems, deleteVars, limiterVars>>

FinalizeReserve(f) ==
  /\ proc[f].pc = "reserve"
  /\ proc[f].kind \in {"webhook", "confirm"}
  /\ LET r == proc[f]
         s == r.sid
         p == NextLine(f)
         pd == [r.pend EXCEPT ![p] = r.lines[p]]
     IN
     /\ ~ProductLocked(p, f)
     /\ IF StockUpdateCount(p, r.lines[p]) = 0
        THEN /\ proc' = [proc EXCEPT ![f] = AfterThrow(RolledBack(r), "outofstock")]
             /\ UNCHANGED <<stock, cart, orders, reserved, finDec, finClears>>
        ELSE IF Remaining(f) # {p}
        THEN /\ proc' = [proc EXCEPT ![f].pend = pd]
             /\ UNCHANGED <<stock, cart, orders, reserved, finDec, finClears>>
        ELSE /\ stock' = StockAfter(pd)
             /\ orders' = [orders EXCEPT ![s].status = "PLACED"]
             /\ cart' = CartAfterDelete(cart, orders[s].owner)
             /\ reserved' = [q \in Products |-> reserved[q] + pd[q]]
             /\ finDec' = [finDec EXCEPT ![s] = [q \in Products |-> finDec[s][q] + pd[q]]]
             /\ finClears' = [finClears EXCEPT ![s] = finClears[s] + 1]
             /\ proc' = [proc EXCEPT ![f] = AfterReturn(RolledBack(r), "PLACED")]
  /\ UNCHANGED <<price, sessions, refunds, initStock, adminEdits, cartAdds, quote,
                 lineItems, deleteVars, limiterVars>>

----------------------------------------------------------------------------
\* compensateStripeFulfillmentFailure(stripe, session), called by the webhook

\* Bug: the key differs from one delivery to the next.
RefundKey_PerDelivery(s, f) == <<"earthco-refund", s, f>>

\* idempotencyKey: `earthco-refund-${session.id}`
RefundKey(s, f) == <<"earthco-refund", s>>

\* stripe.refunds.create, when the session carries a payment intent; the call
\* may fail, and the error then leaves the webhook handler.
\* Bug: a failure of the refund call is swallowed and the cancel goes ahead.
AfterRefund_Swallowed(r, paymentIntent, ok) ==
  [r EXCEPT !.pc = "cancel", !.pi = paymentIntent,
            !.err = IF paymentIntent /\ ~ok THEN "refundfailed" ELSE @]

\* The request once the refund step is over: the awaited stripe.refunds.create
\* threw, and the error leaves the Compensator and the handler's try block; or
\* the Compensator goes on to the cancel.
AfterRefund(r, paymentIntent, ok) ==
  IF paymentIntent /\ ~ok
  THEN [r EXCEPT !.pc = "done", !.pi = TRUE, !.out = "error", !.err = "refundfailed"]
  ELSE [r EXCEPT !.pc = "cancel", !.pi = paymentIntent]

CompensateRefund(f) ==
  /\ proc[f].pc = "refund"
  /\ \E paymentIntent \in BOOLEAN, ok \in BOOLEAN :
       /\ refunds' = IF paymentIntent
                     THEN refunds \cup {[session |-> proc[f].sid,
                                         key |-> RefundKey(proc[f].sid, f), by |-> f]}
                     ELSE refunds
       /\ proc' = [proc EXCEPT ![f] = AfterRefund(proc[f], paymentIntent, ok)]
  /\ UNCHANGED <<stock, price, cart, orders, sessions, reserved, initStock,
                 finDec, finClears, adminEdits, cartAdds, quote,
                 lineItems, deleteVars, limiterVars>>

\* Bug: the cancel matches no row.
CancelledStatus_Never(status) == status

\* Bug: the cancel is guarded on PLACED instead of PENDING_PAYMENT.
CancelledStatus_OnPlaced(status) == IF status = "PLACED" THEN "CANCELLED" ELSE status

\* The cancel: updateMany where stripeSessionId and status = PENDING_PAYMENT.
CancelledStatus(status) == IF status = "PENDING_PAYMENT" THEN "CANCELLED" ELSE status

CompensateCancel(f) ==
  /\ proc[f].pc = "cancel"
  /\ ~OrderLocked(proc[f].sid, f)
  /\ orders' = [orders EXCEPT ![proc[f].sid].status = CancelledStatus(@)]
  /\ proc' = [proc EXCEPT ![f] = [proc[f] EXCEPT !.pc = "done", !.out = "received"]]
  /\ UNCHANGED <<stock, price, cart, sessions, refunds, reserved, initStock,
                 finDec, finClears, adminEdits, cartAdds, quote,
                 lineItems, deleteVars, limiterVars>>

----------------------------------------------------------------------------
\* Admin product update: router.patch("/products/:id") with a stock field

\* Bug: the payload's stock is not validated.
AdminStockValues_Unvalidated == -1 .. MaxStock

\* The stock values the payload schema accepts: z.number().int().min(0).
AdminStockValues == 0 .. MaxStock

AdminUpdateStock(p, v) ==
  /\ adminEdits < MaxAdminEdits
  /\ ~ProductLocked(p, "admin")
  /\ stock' = [stock EXCEPT ![p] = v]
  /\ adminEdits' = adminEdits + 1
  /\ UNCHANGED <<price, cart, orders, sessions, refunds, proc, reserved,
                 initStock, finDec, finClears, cartAdds, quote,
                 lineItems, deleteVars, limiterVars>>

----------------------------------------------------------------------------
Next ==
  \/ \E b \in Buyers, o \in Owners : CheckoutBegin(b, o)
  \/ \E b \in Buyers : \E gen \in GenCases(b) : CheckoutReserve(b, gen, NoFault)
  \/ \E b \in Buyers, o \in Owners : SessionBegin(b, o)
  \/ \E b \in Buyers : \E gen \in GenCases(b) : SessionCreateOrder(b, gen, NoFault)
  \/ \E f \in Callers, s \in sessions, u \in Owners \cup {NoUser} : FinalizeBegin(f, s, u)
  \/ \E f \in Callers : FinalizeClaim(f)
  \/ \E f \in Callers : FinalizeReserve(f)
  \/ \E f \in Callers : CompensateRefund(f)
  \/ \E f \in Callers : CompensateCancel(f)

Spec == Init /\ [][Next]_vars

\* The routes' requests interleaved with admin product updates.
NextAdmin ==
  \/ Next
  \/ \E p \in Products, v \in AdminStockValues : AdminUpdateStock(p, v)

\* The database the admin interleavings start from: one owner holds both
\* products, the other two units of the second; the stocks are then whatever
\* the admin updates make them.
InitAdmin ==
  /\ Init
  /\ stock = [p \in Products |-> IF p = 1 THEN 1 ELSE MaxStock]
  /\ cart = [o \in Owners |-> IF o = "u1" THEN [p \in Products |-> 1]
                                ELSE [p \in Products |-> IF p = 2 THEN 2 ELSE 0]]

SpecAdmin == InitAdmin /\ [][NextAdmin]_vars

----------------------------------------------------------------------------
\* Order creation: the two checkout paths with every number of collisions.
NextCreate ==
  \/ \E b \in Buyers, o \in Owners : CheckoutBegin(b, o)
  \/ \E b \in Buyers, gen \in AllGenCases, fault \in Faults : CheckoutReserve(b, gen, fault)
  \/ \E b \in Buyers, o \in Owners : SessionBegin(b, o)
  \/ \E b \in Buyers, gen \in AllGenCases, fault \in Faults : SessionCreateOrder(b, gen, fault)

\* The database the creations start from: each owner holds one unit of the
\* first product, and both products are fully stocked.
InitCreate ==
  /\ Init
  /\ stock = [p \in Products |-> MaxStock]
  /\ cart = [o \in Owners |-> [p \in Products |-> IF p = 1 THEN 1 ELSE 0]]

SpecCreate == InitCreate /\ [][NextCreate]_vars

----------------------------------------------------------------------------
\* The webhook entry point: router.post("/webhook")

Signatures == {"valid", "invalid", "missing"}
EventTypes == {"checkout.session.completed", "checkout.session.async_payment_succeeded",
               "other"}

\* Bug: the event is constructed without verifying the signature.
getWebhookEvent_Unverified(signature) == "event"

\* getWebhookEvent: HttpError 400 when the signature header is missing or when
\* constructEvent rejects it, the event otherwise.
getWebhookEvent(signature) ==
  IF signature = "missing" THEN "400"
  ELSE IF signature = "invalid" THEN "400"
  ELSE "event"

\* A delivery for session s: rejected through next(error) when getWebhookEvent
\* throws; acknowledged at once when the event is of another type; otherwise
\* finalizeStripeOrder(session.id) is called.
WebhookDeliver(f, s, signature, type) ==
  /\ Arrives(f)
  /\ LET r == [proc[f] EXCEPT !.sig = signature, !.kind = "webhook"]
     IN
     proc' = [proc EXCEPT ![f] =
       IF getWebhookEvent(signature) # "event"
       THEN [Done(r, "badsignature") EXCEPT !.out = "error"]
       ELSE IF type = "other"
       THEN [Done(r, "ignored") EXCEPT !.out = "received"]
       ELSE Finalizing(r, s, NoUser)]
  /\ UNCHANGED <<stock, price, cart, orders, sessions, refunds, reserved,
                 initStock, finDec, finClears, adminEdits, cartAdds, quote,
                 lineItems, deleteVars, limiterVars>>

\* The store fails during the claim of finalizeStripeOrder: an error that is
\* not an HttpError leaves the transaction, which rolls back.
FinalizeStoreError(f) ==
  /\ proc[f].pc = "claim"
  /\ proc' = [proc EXCEPT ![f] = AfterThrow(RolledBack(proc[f]), "other")]
  /\ UNCHANGED <<stock, price, cart, orders, sessions, refunds, reserved,
                 initStock, finDec, finClears, adminEdits, cartAdds, quote,
                 lineItems, deleteVars, limiterVars>>

\* Deferred checkouts, webhook deliveries with any signature, confirm calls.
NextWebhook ==
  \/ \E b \in Buyers, o \in Owners : SessionBegin(b, o)
  \/ \E b \in Buyers : \E gen \in GenCases(b) : SessionCreateOrder(b, gen, NoFault)
  \/ \E f \in Callers, s \in sessions, u \in Owners : FinalizeBegin(f, s, u)
  \/ \E f \in Callers, s \in sessions, signature \in Signatures, type \in EventTypes :
       WebhookDeliver(f, s, signature, type)
  \/ \E f \in Callers : FinalizeClaim(f)
  \/ \E f \in Callers : FinalizeStoreError(f)
  \/ \E f \in Callers : FinalizeReserve(f)
  \/ \E f \in Callers : CompensateRefund(f)
  \/ \E f \in Callers : CompensateCancel(f)

\* The database the deliveries start from: each owner holds one unit of the
\* first product, of which one unit is in stock.
InitWebhook ==
  /\ Init
  /\ stock = [p \in Products |-> IF p = 1 THEN 1 ELSE MaxStock]
  /\ cart = [o \in Owners |-> [p \in Products |-> IF p = 1 THEN 1 ELSE 0]]

SpecWebhook == InitWebhook /\ [][NextWebhook]_vars

----------------------------------------------------------------------------
\* Shipping: computeShipping applied to each subtotal up to MaxSubtotal.

ComputeQuote ==
  /\ quote.shipping = NoShipping
  /\ quote' = [quote EXCEPT !.shipping = computeShipping(quote.subtotal)]
  /\ UNCHANGED <<stock, price, cart, orders, sessions, refunds, proc, reserved,
                 initStock, finDec, finClears, adminEdits, cartAdds, lineItems,
                 deleteVars, limiterVars>>

NextShipping == ComputeQuote

InitShipping ==
  /\ stock = [p \in Products |-> MaxStock]
  /\ price = [p \in Products |-> IF p = 1 THEN 100 ELSE 200]
  /\ cart = [o \in Owners |-> Zero]
  /\ orders = [b \in Buyers |-> NoOrder]
  /\ sessions = {}
  /\ refunds = {}
  /\ proc = [t \in Procs |-> Idle]
  /\ reserved = Zero
  /\ initStock = stock
  /\ finDec = [b \in Buyers |-> Zero]
  /\ finClears = [b \in Buyers |-> 0]
  /\ adminEdits = 0
  /\ cartAdds = [o \in Owners |-> Zero]
  /\ quote \in {[subtotal |-> x, shipping |-> NoShipping] : x \in 0 .. MaxSubtotal}
  /\ lineItems = [b \in Buyers |-> NoItems]
  /\ deleted = {}
  /\ del = NoDelete
  /\ options = DefaultOptions
  /\ entries = [k \in Keys |-> NoEntry]
  /\ now = 0
  /\ reply = NoReply
  /\ windows = [k \in Keys |-> NoWindow]

SpecShipping == InitShipping /\ [][NextShipping]_vars

----------------------------------------------------------------------------
\* Adding an item to the cart: the CartItem of (owner, product) is created
\* with quantity 1 or its quantity is incremented.

CartAdd(o, p) ==
  /\ SumOver(Owners, [x \in Owners |-> SumOver(Products, cartAdds[x])]) < MaxCartAdds
  /\ cart' = [cart EXCEPT ![o][p] = @ + 1]
  /\ cartAdds' = [cartAdds EXCEPT ![o][p] = @ + 1]
  /\ UNCHANGED <<stock, price, orders, sessions, refunds, proc, reserved,
                 initStock, finDec, finClears, adminEdits, quote,
                 lineItems, deleteVars, limiterVars>>

\* The routes' requests interleaved with additions to the carts.
NextCart ==
  \/ Next
  \/ \E o \in Owners, p \in Products : CartAdd(o, p)

\* The database the cart interleavings start from: each owner holds one unit
\* of the first product, and both products are fully stocked.
InitCart ==
  /\ Init
  /\ stock = [p \in Products |-> MaxStock]
  /\ cart = [o \in Owners |-> [p \in Products |-> IF p = 1 THEN 1 ELSE 0]]

SpecCart == InitCart /\ [][NextCart]_vars

----------------------------------------------------------------------------
\* Admin product update with a price field: prisma.product.update.

\* The price the payload sets; the schema accepts positive integers.
AdminPriceValues == {150}

AdminUpdatePrice(p, v) ==
  /\ adminEdits < MaxAdminEdits
  /\ ~ProductLocked(p, "admin")
  /\ price[p] # v
  /\ price' = [price EXCEPT ![p] = v]
  /\ adminEdits' = adminEdits + 1
  /\ UNCHANGED <<stock, cart, orders, sessions, refunds, proc, reserved,
                 initStock, finDec, finClears, cartAdds, quote,
                 lineItems, deleteVars, limiterVars>>

\* The product the owners hold in their carts initially, whose price the
\* orders snapshot.
HeldProduct == CHOOSE p \in Products : \A q \in Products : p <= q

\* Deferred checkouts and their finalizations, interleaved with additions to
\* the carts and with updates of the held product's price.
NextSnapshot ==
  \/ \E b \in Buyers, o \in Owners : SessionBegin(b, o)
  \/ \E b \in Buyers : SessionCreateOrder(b, [a \in AttemptIndexes |-> FreshCode(b)], NoFault)
  \/ \E f \in Callers, s \in sessions, u \in Owners \cup {NoUser} : FinalizeBegin(f, s, u)
  \/ \E f \in Callers : FinalizeClaim(f)
  \/ \E f \in Callers : FinalizeReserve(f)
  \/ \E f \in Callers : CompensateRefund(f)
  \/ \E f \in Callers : CompensateCancel(f)
  \/ \E o \in Owners, p \in Products : CartAdd(o, p)
  \/ \E v \in AdminPriceValues : AdminUpdatePrice(HeldProduct, v)

SpecSnapshot == InitWebhook /\ [][NextSnapshot]_vars

----------------------------------------------------------------------------
\* Admin product delete: router.delete("/products/:id")

\* prisma.orderLine.count({where: {productId}}) on the committed orders.
OrderLineCount(p) ==
  Cardinality({b \in Buyers : orders[b] # NoOrder /\ orders[b].lines[p] > 0})

\* What the store does with a product.delete while order lines reference the
\* product: it refuses, or it deletes the row.
ForeignKeyActions == {"restrict", "delete"}

\* The count: a product with order lines is refused with 409.
DeleteCount(p) ==
  /\ del.pc = "idle"
  /\ p \notin deleted
  /\ del' = IF OrderLineCount(p) > 0
            THEN [pc |-> "done", product |-> p, out |-> "conflict"]
            ELSE [pc |-> "counted", product |-> p, out |-> "none"]
  /\ UNCHANGED <<stock, price, cart, orders, sessions, refunds, proc, reserved,
                 initStock, finDec, finClears, adminEdits, cartAdds, quote,
                 lineItems, deleted, limiterVars>>

\* prisma.cartItem.deleteMany({where: {productId}}), outside any transaction.
DeleteCartItems ==
  /\ del.pc = "counted"
  /\ cart' = [o \in Owners |-> [cart[o] EXCEPT ![del.product] = 0]]
  /\ del' = [del EXCEPT !.pc = "cartsDeleted"]
  /\ UNCHANGED <<stock, price, orders, sessions, refunds, proc, reserved,
                 initStock, finDec, finClears, adminEdits, cartAdds, quote,
                 lineItems, deleted, limiterVars>>

\* prisma.product.delete({where: {id}}): an error other than P2025 is thrown on.
DeleteProduct ==
  /\ del.pc = "cartsDeleted"
  /\ ~ProductLocked(del.product, "admin")
  /\ \E fk \in ForeignKeyActions :
       IF OrderLineCount(del.product) > 0 /\ fk = "restrict"
       THEN /\ del' = [del EXCEPT !.pc = "done", !.out = "error"]
            /\ UNCHANGED deleted
       ELSE /\ del' = [del EXCEPT !.pc = "done", !.out = "ok"]
            /\ deleted' = deleted \cup {del.product}
  /\ UNCHANGED <<stock, price, cart, orders, sessions, refunds, proc, reserved,
                 initStock, finDec, finClears, adminEdits, cartAdds, quote,
                 lineItems, limiterVars>>

\* The two checkout paths interleaved with an admin delete.
NextDelete ==
  \/ \E b \in Buyers, o \in Owners : CheckoutBegin(b, o)
  \/ \E b \in Buyers : CheckoutReserve(b, [a \in AttemptIndexes |-> FreshCode(b)], NoFault)
  \/ \E b \in Buyers, o \in Owners : SessionBegin(b, o)
  \/ \E b \in Buyers : SessionCreateOrder(b, [a \in AttemptIndexes |-> FreshCode(b)], NoFault)
  \/ \E p \in Products : DeleteCount(p)
  \/ DeleteCartItems
  \/ DeleteProduct

SpecDelete == Init /\ [][NextDelete]_vars

----------------------------------------------------------------------------
\* The confirm endpoint: router.post("/confirm/:sessionId")

\* session.payment_status as the provider reports it.
PaymentStatuses == {"paid", "unpaid", "no_payment_required"}

\* Bug: the session is finalized whatever its payment status.
ConfirmFinalizes_Always(payment_status) == TRUE

\* session.payment_status !== "paid" answers paid: false without finalizing.
ConfirmFinalizes(payment_status) == payment_status = "paid"

\* A confirm call by user u for session s: 404 when findFirst finds no order of
\* u's for the session; {paid: false, order} when the session is not paid;
\* otherwise finalizeStripeOrder(sessionId, userId).
Confirm(f, s, u, payment_status) ==
  /\ Arrives(f)
  /\ LET existingOrder == OrderOfSession(s)
         r == [proc[f] EXCEPT !.kind = "confirm", !.owner = u, !.sid = s,
                              !.payment = payment_status,
                              !.began = existingOrder.status]
     IN
     proc' = [proc EXCEPT ![f] =
       IF existingOrder = NoOrder \/ existingOrder.owner # u
       THEN AfterThrow(r, "notfound")
       ELSE IF ~ConfirmFinalizes(payment_status)
       THEN [Done(r, "unpaid") EXCEPT !.out = "notpaid"]
       ELSE Finalizing(r, s, u)]
  /\ UNCHANGED <<stock, price, cart, orders, sessions, refunds, reserved,
                 initStock, finDec, finClears, adminEdits, cartAdds, quote,
                 lineItems, deleteVars, limiterVars>>

----------------------------------------------------------------------------
\* Deferred checkouts, webhook deliveries and confirm calls, every handler
\* running to completion.
NextLive ==
  \/ \E b \in Buyers, o \in Owners : SessionBegin(b, o)
  \/ \E b \in Buyers : \E gen \in GenCases(b) : SessionCreateOrder(b, gen, NoFault)
  \/ \E f \in Callers, s \in sessions, u \in Owners : FinalizeBegin(f, s, u)
  \/ \E f \in Callers, s \in sessions, signature \in Signatures, type \in EventTypes :
       WebhookDeliver(f, s, signature, type)
  \/ \E f \in Callers : FinalizeClaim(f)
  \/ \E f \in Callers : FinalizeReserve(f)
  \/ \E f \in Callers : CompensateRefund(f)
  \/ \E f \in Callers : CompensateCancel(f)

\* A handler that has begun is not suspended forever: each await resolves.
HandlersComplete ==
  \A f \in Callers :
    /\ WF_vars(FinalizeClaim(f))
    /\ WF_vars(FinalizeReserve(f))
    /\ WF_vars(CompensateRefund(f))
    /\ WF_vars(CompensateCancel(f))

SpecLive == InitWebhook /\ [][NextLive]_vars /\ HandlersComplete

----------------------------------------------------------------------------
\* The rate limiter: createRateLimit(options)

\* The clock advances by TickMs, up to MaxNow; a Map entry counts up to MaxCount.
TickMs == 500
MaxNow == 3000
MaxCount == 4

Max(a, b) == IF a >= b THEN a ELSE b
\* Math.ceil(a / b) for a >= 0 and b > 0.
Ceil(a, b) == (a + b - 1) \div b

\* windowMs = Math.max(options.windowMs, 1000); max = Math.max(options.max, 1)
WindowMs == Max(options.windowMs, 1000)
MaxRequests == Max(options.max, 1)

\* The options the limiter is created with.
OptionCases == [windowMs : {500, 1500}, max : {0, 2}]

\* Bug: one request more than max is passed on in each window.
OverLimit_OffByOne(count) == count > MaxRequests + 1

\* existing.count > max
OverLimit(count) == count > MaxRequests

\* Bug: a request arriving exactly at resetAt is still in the old window.
Expired_Strict(existing) == existing = NoEntry \/ existing.resetAt < now

\* !existing || existing.resetAt <= now
Expired(existing) == existing = NoEntry \/ existing.resetAt <= now

\* Retry-After: Math.max(Math.ceil((existing.resetAt - now) / 1000), 1)
RetryAfter(existing) == Max(Ceil(existing.resetAt - now, 1000), 1)

\* The variables of the shop.
shopVars == <<stock, price, cart, orders, sessions, refunds, proc, reserved,
              initStock, finDec, finClears, adminEdits, cartAdds, quote,
              lineItems, deleteVars>>

\* The handler, called for a request of key k.
Request(k) ==
  LET existing == entries[k] IN
  /\ Expired(existing) \/ existing.count < MaxCount
  /\ IF Expired(existing)
     THEN /\ entries' = [entries EXCEPT ![k] = [count |-> 1, resetAt |-> now + WindowMs]]
          /\ reply' = [key |-> k, passed |-> TRUE, status |-> 200, retryAfter |-> 0,
                       at |-> now]
          /\ windows' = [windows EXCEPT ![k] =
                           [open |-> TRUE, openedAt |-> now, admitted |-> 1,
                            refused |-> windows[k].refused]]
     ELSE /\ entries' = [entries EXCEPT ![k].count = existing.count + 1]
          /\ IF OverLimit(existing.count + 1)
             THEN /\ reply' = [key |-> k, passed |-> FALSE, status |-> 429,
                               retryAfter |-> RetryAfter(existing), at |-> now]
                  /\ windows' = [windows EXCEPT ![k].refused = TRUE]
             ELSE /\ reply' = [key |-> k, passed |-> TRUE, status |-> 200,
                               retryAfter |-> 0, at |-> now]
                  /\ windows' = [windows EXCEPT ![k].admitted = @ + 1]
  /\ UNCHANGED <<options, now, shopVars>>

\* Time passes.
Tick ==
  /\ now < MaxNow
  /\ now' = now + TickMs
  /\ UNCHANGED <<options, entries, reply, windows, shopVars>>

NextLimiter ==
  \/ \E k \in Keys : Request(k)
  \/ Tick

InitLimiter ==
  /\ stock = [p \in Products |-> MaxStock]
  /\ price = [p \in Products |-> IF p = 1 THEN 100 ELSE 200]
  /\ cart = [o \in Owners |-> Zero]
  /\ orders = [b \in Buyers |-> NoOrder]
  /\ sessions = {}
  /\ refunds = {}
  /\ proc = [t \in Procs |-> Idle]
  /\ reserved = Zero
  /\ initStock = stock
  /\ finDec = [b \in Buyers |-> Zero]
  /\ finClears = [b \in Buyers |-> 0]
  /\ adminEdits = 0
  /\ cartAdds = [o \in Owners |-> Zero]
  /\ quote = NoQuote
  /\ lineItems = [b \in Buyers |-> NoItems]
  /\ deleted = {}
  /\ del = NoDelete
  /\ options \in OptionCases
  /\ entries = [k \in Keys |-> NoEntry]
  /\ now = 0
  /\ reply = NoReply
  /\ windows = [k \in Keys |-> NoWindow]

SpecLimiter == InitLimiter /\ [][NextLimiter]_vars

----------------------------------------------------------------------------
\* Fulfilment, by a collaborator outside these routes: PLACED -> FULFILLED.

Fulfil(b) ==
  /\ orders[b].status = "PLACED"
  /\ orders' = [orders EXCEPT ![b].status = "FULFILLED"]
  /\ UNCHANGED <<stock, price, cart, sessions, refunds, proc, reserved,
                 initStock, finDec, finClears, adminEdits, cartAdds, quote,
                 lineItems, deleteVars, limiterVars>>

NextLife ==
  \/ Next
  \/ \E b \in Buyers : Fulfil(b)

SpecLife == Init /\ [][NextLife]_vars

\* Both checkout paths, webhook deliveries, confirm calls with any payment
\* status, and fulfilment.
NextConfirm ==
  \/ \E b \in Buyers, o \in Owners : CheckoutBegin(b, o)
  \/ \E b \in Buyers : CheckoutReserve(b, [a \in AttemptIndexes |-> FreshCode(b)], NoFault)
  \/ \E b \in Buyers, o \in Owners : SessionBegin(b, o)
  \/ \E b \in Buyers : SessionCreateOrder(b, [a \in AttemptIndexes |-> FreshCode(b)], NoFault)
  \/ \E f \in Callers, s \in sessions : FinalizeBegin(f, s, NoUser)
  \/ \E f \in Callers, s \in sessions, u \in Owners, ps \in PaymentStatuses :
       Confirm(f, s, u, ps)
  \/ \E f \in Callers : FinalizeClaim(f)
  \/ \E f \in Callers : FinalizeReserve(f)
  \/ \E f \in Callers : CompensateRefund(f)
  \/ \E f \in Callers : CompensateCancel(f)
  \/ \E b \in Buyers : Fulfil(b)

SpecConfirm == InitWebhook /\ [][NextConfirm]_vars

----------------------------------------------------------------------------
\* Steps of a request, for the properties of single steps.

\* Request t takes this step.
Steps(t) == proc'[t] # proc[t]

\* Request t makes a reservation attempt (a conditional decrement) in this step.
Attempts(t) == proc[t].pc = "reserve" /\ Steps(t)

\* Request t fails in this step: its handler's transaction throws.
FailsNow(t, results) ==
  /\ Steps(t)
  /\ proc[t].res = "none"
  /\ proc'[t].res \in results

\* The calls of finalizeStripeOrder made for session s.
CallsFor(s) == {f \in Callers : proc[f].sid = s}

\* A refund was requested by delivery f.
RefundedBy(f) == \E r \in refunds : r.by = f

----------------------------------------------------------------------------
\* C1: No oversell. In every interleaving of immediate checkouts and
\* finalizations the quantity of a product taken by committed reservations
\* never exceeds the stock it started with, and a reservation attempted while
\* the remaining stock is smaller than its quantity fails and takes nothing.
C1_Within == \A p \in Products : reserved[p] <= initStock[p] /\ stock[p] >= 0
C1_ShortFails ==
  \A t \in Procs :
    (Attempts(t) /\ stock[NextLine(t)] < proc[t].lines[NextLine(t)])
      => /\ proc'[t].res = "outofstock"
         /\ proc'[t].pend = Zero
         /\ stock' = stock
         /\ reserved' = reserved
\* C1: no oversell: committed reservations of a product never exceed its
\* initial stock, and a reservation attempted on too little stock fails.
C1_NoOversell == []C1_Within /\ [][C1_ShortFails]_vars

\* C1 witness: a product that had stock is sold out, and a request that passed
\* the pre-check failed on its conditional decrement.
C1_Witness ==
  /\ \E p \in Products : initStock[p] > 0 /\ reserved[p] = initStock[p]
  /\ \E t \in Procs : proc[t].res = "outofstock"

\* C2: Finalization idempotence. For every order with a session, the committed
\* finalizations took each line's quantity exactly once and cleared the cart
\* exactly once if the order is PLACED and never otherwise; and when no call
\* for the session failed on stock, every call that found the order returned
\* it with status PLACED.
C2_FinalizeIdempotent ==
  \A s \in Buyers :
    orders[s] # NoOrder /\ orders[s].session # "none" =>
      /\ finDec[s] = IF orders[s].status = "PLACED" THEN orders[s].lines ELSE Zero
      /\ finClears[s] = IF orders[s].status = "PLACED" THEN 1 ELSE 0
      /\ (\A g \in CallsFor(s) : proc[g].res # "outofstock") =>
           \A f \in CallsFor(s) :
             proc[f].pc = "done" /\ proc[f].res # "notfound" => proc[f].res = "PLACED"

\* C2 witness: two calls for one session both read the order in
\* PENDING_PAYMENT, one lost the claim, both returned PLACED.
C2_Witness ==
  \E s \in Buyers :
    /\ orders[s] # NoOrder /\ orders[s].status = "PLACED"
    /\ finDec[s] = orders[s].lines
    /\ \E f, g \in CallsFor(s) :
         /\ f # g
         /\ proc[f].began = "PENDING_PAYMENT" /\ proc[g].began = "PENDING_PAYMENT"
         /\ proc[f].res = "PLACED" /\ proc[g].res = "PLACED"
         /\ proc[f].won /\ ~proc[g].won

\* C3 as claimed: of the calls for one order exactly one ever proceeds to the
\* stock-reservation loop, also when the call that won the claim fails on
\* stock reservation.
C3_Original == \A s \in Buyers : Cardinality({f \in CallsFor(s) : proc[f].won}) <= 1

\* C3 amended: at any moment at most one call for an order holds the claim and
\* is in the stock-reservation loop; of the calls that proceeded to the loop
\* all but at most one failed on stock and were rolled back, and at most one
\* committed; a call that does not hold the claim holds no decrement, and its
\* steps change neither stock nor cart.
C3_OneHolder ==
  /\ \A s \in Buyers :
       /\ Cardinality({f \in CallsFor(s) : proc[f].claimed}) <= 1
       /\ Cardinality({f \in CallsFor(s) : proc[f].won /\ proc[f].res # "outofstock"}) <= 1
       /\ Cardinality({f \in CallsFor(s) : proc[f].won /\ proc[f].res = "PLACED"}) <= 1
  /\ \A f \in Callers :
       /\ ~proc[f].claimed => proc[f].pend = Zero
       /\ proc[f].claimed => proc[f].won /\ proc[f].pc = "reserve"
C3_LosersInert ==
  \A f \in Callers : Steps(f) /\ ~proc[f].claimed => stock' = stock /\ cart' = cart
\* C3 amended: at most one call at a time holds the claim of an order, at most
\* one call that proceeded to the reservation loop did not fail on stock, and
\* the steps of a call that does not hold the claim change no stock and no cart.
C3_ClaimArbitrates == []C3_OneHolder /\ [][C3_LosersInert]_vars

\* C3 witness: the call that won the claim failed on stock, and a second call
\* for the same order has won the claim after it.
C3_Witness ==
  \E f, g \in Callers :
    /\ f # g /\ proc[f].sid = proc[g].sid
    /\ proc[f].won /\ proc[f].res = "outofstock"
    /\ proc[g].won /\ proc[g].claimed

\* C4: the status a call returns is terminal and is the stored status of the
\* order from then on, so all calls that return for one session agree: all
\* PLACED or all CANCELLED, and none returns PENDING_PAYMENT.
C4_ConsistentReturn ==
  \A f \in Callers :
    Returned(proc[f]) =>
      /\ proc[f].res \in {"PLACED", "CANCELLED"}
      /\ proc[f].res = orders[proc[f].sid].status
      /\ \A g \in CallsFor(proc[f].sid) : Returned(proc[g]) => proc[g].res = proc[f].res

\* C4 witness: a call read the order in PENDING_PAYMENT, lost the claim to the
\* compensator of another delivery and returned CANCELLED.
C4_Witness ==
  \E f, g \in Callers :
    /\ f # g /\ proc[f].sid = proc[g].sid
    /\ proc[f].began = "PENDING_PAYMENT" /\ proc[f].res = "CANCELLED"
    /\ proc[g].res = "outofstock" /\ proc[g].out = "received"

\* C5: two owners each hold one cart line of quantity 1 for product 1, whose
\* stock is 1, and both run immediate checkout (no order-code conflict): once
\* both have answered, exactly one has created an order, the other failed on
\* stock, the stock is 0 and exactly one order exists.
OneOfFirst == [p \in Products |-> IF p = 1 THEN 1 ELSE 0]
HeldCart(b) == IF orders[b] # NoOrder THEN orders[b].lines ELSE cart[proc[b].owner]
C5_Scenario ==
  /\ \A b \in Buyers :
       /\ proc[b].kind = "immediate" /\ proc[b].pc = "done"
       /\ proc[b].res # "conflict"
       /\ HeldCart(b) = OneOfFirst
  /\ proc["b1"].owner # proc["b2"].owner
  /\ initStock[1] = 1
\* C5: in the scenario exactly one checkout created an order, the other
\* failed on stock, the stock is 0 and exactly one order exists.
C5_OneWinner ==
  C5_Scenario =>
    /\ Cardinality({b \in Buyers : proc[b].res = "created"}) = 1
    /\ Cardinality({b \in Buyers : proc[b].res \in {"outofstock", "insufficient"}}) = 1
    /\ stock[1] = 0
    /\ Cardinality({b \in Buyers : orders[b] # NoOrder}) = 1

\* C5 witness: the two checkouts ran concurrently: the loser passed the
\* pre-check and failed on its conditional decrement.
C5_Witness == C5_Scenario /\ \E b \in Buyers : proc[b].res = "outofstock"

\* C6: immediate checkout is all-or-nothing. The step in which an immediate
\* checkout fails (empty cart, pre-check, a conditional decrement of any line,
\* order creation) changes no stock, no order and no cart, and leaves none of
\* the decrements it had applied to earlier lines.
C6_FailureKeepsAll ==
  \A b \in Buyers :
    (proc'[b].kind = "immediate"
       /\ FailsNow(b, {"empty", "insufficient", "outofstock", "conflict"}))
      => /\ stock' = stock /\ orders' = orders /\ cart' = cart
         /\ reserved' = reserved
         /\ proc'[b].pend = Zero
\* C6: every step in which an immediate checkout fails leaves stock, orders
\* and carts as they were and none of the checkout's decrements.
C6_AllOrNothing == [][C6_FailureKeepsAll]_vars

\* C6 witness: a checkout of two lines failed on the decrement of its second
\* line, after the decrement of its first line; the first product's stock and
\* the owner's cart are intact.
C6_Witness ==
  \E b \in Buyers :
    /\ proc[b].kind = "immediate" /\ proc[b].res = "outofstock"
    /\ cart[proc[b].owner] = [p \in Products |-> 1]
    /\ stock[1] >= 1 /\ stock[1] = initStock[1]
    /\ proc[b].pend = Zero

\* C7: the step in which a finalizeStripeOrder call fails on stock changes no
\* stock, no order and no cart; the order's stored status is the one the call
\* found (PENDING_PAYMENT), and neither the claim nor the decrements of the
\* lines reserved earlier in the call survive.
C7_FailureKeepsAll ==
  \A f \in Callers :
    FailsNow(f, {"outofstock"})
      => /\ stock' = stock /\ orders' = orders /\ cart' = cart
         /\ reserved' = reserved
         /\ orders'[proc[f].sid].status = proc[f].began
         /\ proc'[f].pend = Zero /\ ~proc'[f].claimed
         /\ ~OrderLocked(proc[f].sid, "nobody")'
\* C7: every step in which finalizeStripeOrder fails on stock leaves the
\* order's status, every stock and the cart as they were.
C7_NoPartialFinalize == [][C7_FailureKeepsAll]_vars

\* C7 witness: a call for an order of two lines failed on its second line
\* after reserving the first; the order is stored as PENDING_PAYMENT.
C7_Witness ==
  \E f \in Callers :
    /\ proc[f].res = "outofstock" /\ proc[f].won
    /\ orders[proc[f].sid].lines = [p \in Products |-> 1]
    /\ orders[proc[f].sid].status = "PENDING_PAYMENT"
    /\ stock[1] >= 1 /\ stock[2] = 0

\* C8 as claimed: when the call that won the claim has failed on stock and
\* the compensator runs, the stored status is PLACED.
C8_Original ==
  \A f \in Callers :
    proc[f].pc \in {"refund", "cancel"} => orders[proc[f].sid].status = "PLACED"

\* C8 amended: the failure rolls the claim back, so the stored status is
\* PENDING_PAYMENT right after it; the compensator's cancel update matches the
\* row exactly when it is still PENDING_PAYMENT and then stores CANCELLED, so
\* once the compensator has run the order is no longer PENDING_PAYMENT, and it
\* is PLACED only if another finalization was committed.
C8_StatusAtCompensation ==
  \A f \in Callers :
    /\ proc[f].pc \in {"refund", "cancel"} =>
         \/ orders[proc[f].sid].status \in {"PENDING_PAYMENT", "CANCELLED"}
         \/ finDec[proc[f].sid] # Zero
    /\ proc[f].pc = "done" /\ proc[f].res = "outofstock" /\ proc[f].out = "received" =>
         \/ orders[proc[f].sid].status = "CANCELLED"
         \/ finDec[proc[f].sid] # Zero
C8_CancelStep ==
  \A f \in Callers :
    /\ FailsNow(f, {"outofstock"}) => orders'[proc[f].sid].status = "PENDING_PAYMENT"
    /\ Steps(f) /\ proc[f].pc = "cancel" =>
         orders'[proc[f].sid].status =
           IF orders[proc[f].sid].status = "PENDING_PAYMENT" THEN "CANCELLED"
           ELSE orders[proc[f].sid].status
\* C8 amended: after the failure the stored status is PENDING_PAYMENT, and the
\* compensator's cancel update turns exactly that status into CANCELLED.
C8_CancelMatches == []C8_StatusAtCompensation /\ [][C8_CancelStep]_vars

\* C8 witness: the call that won the claim failed on stock, the compensator
\* ran, and the order is stored as CANCELLED.
C8_Witness ==
  \E f \in Callers :
    /\ proc[f].won /\ proc[f].res = "outofstock" /\ proc[f].pc = "done"
    /\ proc[f].out = "received"
    /\ orders[proc[f].sid].status = "CANCELLED"

EffectiveRefunds(s) == {r.key : r \in {x \in refunds : x.session = s}}
\* C10: one idempotency key per session over all refund requests, and no
\* refund request from a delivery that found the order CANCELLED.
C10_NoDoubleRefund ==
  /\ \A s \in Buyers : Cardinality(EffectiveRefunds(s)) <= 1
  /\ \A f \in Callers : proc[f].began = "CANCELLED" => ~RefundedBy(f)

\* C10 witness: two deliveries for one session have each sent a refund request.
C10_Witness ==
  \E r1, r2 \in refunds : r1.by # r2.by /\ r1.session = r2.session

----------------------------------------------------------------------------
\* C11: PLACED, FULFILLED and CANCELLED are absorbing for finalization. A call
\* of finalizeStripeOrder that finds the order (of the expected owner) in one
\* of these statuses returns it with that status at once, and its step leaves
\* the order, every product's stock and every cart unchanged; the call holds
\* no claim and no decrement.
C11_CallIsNoOp ==
  \A f \in Callers :
    (proc[f].pc = "idle" /\ Steps(f) /\ proc'[f].res # "notfound"
       /\ orders[proc'[f].sid].status \in {"PLACED", "FULFILLED", "CANCELLED"})
      => /\ proc'[f].pc = "done"
         /\ proc'[f].res = orders[proc'[f].sid].status
         /\ ~proc'[f].claimed /\ proc'[f].pend = Zero
         /\ orders' = orders /\ stock' = stock /\ cart' = cart
\* C11: a finalizeStripeOrder call on a PLACED, FULFILLED or CANCELLED order
\* returns the order and changes neither its status nor any stock nor any cart.
C11_Absorbing == [][C11_CallIsNoOp]_vars

\* C11 witness: a call has returned an order that it found FULFILLED, placed
\* before by another call's finalization.
C11_Witness ==
  \E f, g \in Callers :
    /\ proc[f].pc = "done" /\ proc[f].began = "FULFILLED" /\ proc[f].res = "FULFILLED"
    /\ orders[proc[f].sid].status = "FULFILLED"
    /\ proc[g].sid = proc[f].sid /\ proc[g].won /\ proc[g].res = "PLACED"

\* C12: order lifecycle. The committed status of an order changes only from
\* PENDING_PAYMENT to PLACED, in a step of a finalization, or from
\* PENDING_PAYMENT to CANCELLED, in a step of the compensator; an order that
\* exists keeps existing, with its owner and lines. The steps are those of
\* the routes' requests: fulfilment (PLACED -> FULFILLED) is a collaborator's.
C12_StatusStep ==
  \A b \in Buyers :
    /\ orders[b] # NoOrder =>
         /\ orders'[b] # NoOrder
         /\ orders'[b].owner = orders[b].owner /\ orders'[b].lines = orders[b].lines
    /\ (orders[b] # NoOrder /\ orders'[b].status # orders[b].status
          /\ \E t \in Procs : Steps(t)) =>
         /\ orders[b].status = "PENDING_PAYMENT"
         /\ \/ /\ orders'[b].status = "PLACED"
               /\ \E f \in Callers : Steps(f) /\ proc[f].pc = "reserve" /\ proc[f].sid = b
            \/ /\ orders'[b].status = "CANCELLED"
               /\ \E f \in Callers : Steps(f) /\ proc[f].pc = "cancel" /\ proc[f].sid = b
\* C12: the status of an order changes only PENDING_PAYMENT -> PLACED or
\* PENDING_PAYMENT -> CANCELLED, and no order is deleted.
C12_Lifecycle == [][C12_StatusStep]_vars

\* C12 witness: one order was placed by a finalization and another was
\* cancelled by the compensator.
C12_Witness ==
  \E a, b \in Buyers :
    /\ orders[a].status = "PLACED" /\ finDec[a] # Zero
    /\ orders[b].status = "CANCELLED"
    /\ \E f \in Callers : proc[f].sid = b /\ proc[f].res = "outofstock" /\ proc[f].out = "received"

----------------------------------------------------------------------------
\* C13 as claimed: Product.stock is mutated exclusively through the conditional
\* decrement. Every step that changes a product's stock is a reservation step
\* of a checkout or finalization that lowers it by a quantity the stock
\* covered; no step assigns a stock.
C13_DecrementOnly ==
  \A p \in Products :
    stock'[p] # stock[p] =>
      /\ stock'[p] < stock[p] /\ stock'[p] >= 0
      /\ \E t \in Procs : Attempts(t) /\ proc[t].lines[p] = stock[p] - stock'[p]
\* C13: no operation of the program, the admin product update included, writes
\* stock other than by the conditional decrement.
C13_Original == [][C13_DecrementOnly]_vars

\* C14: in every reachable state, under any interleaving of immediate
\* checkouts, finalizations, compensations and admin product updates, every
\* product's stock is >= 0, also counting the decrements of open transactions.
C14_StockNonNegative ==
  \A p \in Products :
    /\ stock[p] >= 0
    /\ \A t \in Procs : stock[p] - proc[t].pend[p] >= 0

\* C14 witness: an admin update has set a stock and a reservation committed
\* after it has taken a product's stock to 0.
C14_Witness ==
  /\ adminEdits > 0
  /\ \E p \in Products : stock[p] = 0 /\ reserved[p] > initStock[p]

----------------------------------------------------------------------------
\* C15: for every order created by either checkout path, in the state where
\* it is created and in every later state, total = subtotal + shipping,
\* subtotal is the sum over its lines of unitPrice * quantity, and shipping is
\* 0 for a subtotal above 250 (or of 0) and 12 otherwise.
C15_OrderTotals ==
  \A b \in Buyers :
    orders[b] # NoOrder =>
      LET o == orders[b] IN
      /\ o.total = o.subtotal + o.shipping
      /\ o.subtotal = o.unit[1] * o.lines[1] + o.unit[2] * o.lines[2]
      /\ o.shipping = IF o.subtotal > 250 \/ o.subtotal = 0 THEN 0 ELSE 12

\* C15 witness: an immediate order with shipping charged and a deferred order
\* of two units of one product with free shipping, finalized since.
C15_Witness ==
  \E a, b \in Buyers :
    /\ orders[a] # NoOrder /\ orders[a].session = "none" /\ orders[a].shipping = 12
    /\ orders[b] # NoOrder /\ orders[b].session = b /\ orders[b].lines[2] = 2
    /\ orders[b].shipping = 0 /\ orders[b].status = "PLACED"

----------------------------------------------------------------------------
\* C16: a successful immediate checkout creates exactly one order, with status
\* PLACED, whose lines are the caller's cart lines as the checkout read them
\* (product, quantity, and the product's price at that moment), decrements
\* each of these products' stock by exactly the line quantity, and leaves the
\* caller's cart empty and every other owner's cart unchanged.
C16_ReadsCart ==
  \A b \in Buyers, o \in Owners :
    (proc[b].pc = "idle" /\ Steps(b) /\ proc'[b].kind = "immediate"
       /\ proc'[b].owner = o /\ proc'[b].pc = "reserve")
      => proc'[b].lines = cart[o] /\ proc'[b].unit = price
C16_Commits ==
  \A b \in Buyers :
    (proc[b].kind = "immediate" /\ Steps(b) /\ proc'[b].res = "created")
      => /\ orders[b] = NoOrder
         /\ orders'[b].status = "PLACED" /\ orders'[b].owner = proc[b].owner
         /\ orders'[b].lines = proc[b].lines /\ orders'[b].unit = proc[b].unit
         /\ \A a \in Buyers \ {b} : orders'[a] = orders[a]
         /\ \A p \in Products : stock'[p] = stock[p] - proc[b].lines[p]
         /\ cart'[proc[b].owner] = Zero
         /\ \A o \in Owners \ {proc[b].owner} : cart'[o] = cart[o]
C16_OnlyOnSuccess ==
  \A b \in Buyers :
    (proc[b].kind = "immediate" /\ proc[b].pc = "done")
      => (orders[b] # NoOrder <=> proc[b].res = "created")
\* C16: a successful immediate checkout creates one PLACED order of the cart's
\* lines, takes exactly their quantities from stock and empties only the
\* caller's cart.
C16_CheckoutEffect ==
  [][C16_ReadsCart /\ C16_Commits]_vars /\ []C16_OnlyOnSuccess

\* C16 witness: a checkout of a cart of two lines has succeeded while the
\* other owner's cart still holds its items.
C16_Witness ==
  \E b \in Buyers :
    /\ proc[b].kind = "immediate" /\ proc[b].res = "created"
    /\ orders[b].status = "PLACED" /\ orders[b].lines = [p \in Products |-> 1]
    /\ cart[orders[b].owner] = Zero
    /\ \E o \in Owners : cart[o] # Zero
    /\ \A p \in Products : stock[p] = initStock[p] - 1

----------------------------------------------------------------------------
\* C17: deferred checkout touches neither stock nor cart. Every step of a
\* checkout-session request, succeeding or failing, leaves every stock and
\* every cart unchanged, and the order it creates is PENDING_PAYMENT; as long
\* as a deferred order is PENDING_PAYMENT nothing has been taken from stock
\* or cleared from the cart for it, which only a finalization that commits
\* does, leaving the order PLACED.
C17_StepKeeps ==
  \A b \in Buyers :
    (Steps(b) /\ proc'[b].kind = "deferred")
      => /\ stock' = stock /\ cart' = cart
         /\ orders'[b] # orders[b] =>
              /\ orders[b] = NoOrder
              /\ orders'[b].status = "PENDING_PAYMENT"
              /\ orders'[b].lines = proc[b].lines
C17_PendingHoldsNothing ==
  \A b \in Buyers :
    (orders[b] # NoOrder /\ orders[b].session = b) =>
      /\ orders[b].status = "PENDING_PAYMENT" => finDec[b] = Zero /\ finClears[b] = 0
      /\ finDec[b] # Zero \/ finClears[b] # 0 =>
           orders[b].status \in {"PLACED", "FULFILLED"} /\ finDec[b] = orders[b].lines
\* C17: no step of a deferred checkout changes a stock or a cart, and an order
\* that is PENDING_PAYMENT holds no stock and has cleared no cart.
C17_DeferredTouchesNothing == [][C17_StepKeeps]_vars /\ []C17_PendingHoldsNothing

\* C17 witness: a deferred checkout has created its order, which is still
\* PENDING_PAYMENT; the stocks are the initial ones and the owner's cart
\* still holds the order's lines.
C17_Witness ==
  \E b \in Buyers :
    /\ proc[b].kind = "deferred" /\ proc[b].res = "created"
    /\ orders[b].status = "PENDING_PAYMENT"
    /\ stock = initStock
    /\ cart[orders[b].owner] = orders[b].lines

----------------------------------------------------------------------------
\* C19: finalizeStripeOrder called with a session id that has no order, or
\* with an expected owner different from the order's owner, fails with the
\* same not-found error in both cases and changes nothing: orders, stock and
\* carts are unchanged, whatever the order's status, and the call holds no
\* claim and no decrement.
C19_RejectsCall ==
  \A f \in Callers :
    (proc[f].pc = "idle" /\ Steps(f)) =>
      LET s == proc'[f].sid
          u == proc'[f].owner
      IN
      /\ (orders[s] = NoOrder \/ (u # NoUser /\ orders[s].owner # u)) =>
           /\ proc'[f].pc = "done" /\ proc'[f].res = "notfound" /\ proc'[f].out = "error"
           /\ ~proc'[f].claimed /\ proc'[f].pend = Zero
           /\ orders' = orders /\ stock' = stock /\ cart' = cart /\ refunds' = refunds
      /\ proc'[f].res = "notfound" =>
           orders[s] = NoOrder \/ (u # NoUser /\ orders[s].owner # u)
\* C19: a call for a session without order or with another owner than the
\* order's fails with not-found and changes nothing.
C19_NotFound == [][C19_RejectsCall]_vars

\* C19 witness: one call was rejected for a session that has no order, and
\* another for an order awaiting payment of another owner than the expected.
C19_Witness ==
  \E f, g \in Callers :
    /\ proc[f].res = "notfound" /\ orders[proc[f].sid] = NoOrder
    /\ proc[g].res = "notfound" /\ orders[proc[g].sid].status = "PENDING_PAYMENT"
    /\ proc[g].owner # NoUser /\ orders[proc[g].sid].owner # proc[g].owner

----------------------------------------------------------------------------
\* C18: a successful finalization deletes all of the order owner's cart items,
\* those that funded the order and any added after checkout began, and
\* deletes no cart item of any other owner. In the step in which a
\* finalization commits, the owner's cart becomes empty and every other cart
\* stays as it is.
C18_CommitClearsOwner ==
  \A f \in Callers :
    (Steps(f) /\ proc[f].pc = "reserve" /\ proc'[f].res = "PLACED") =>
      LET o == orders[proc[f].sid].owner IN
      /\ orders'[proc[f].sid].status = "PLACED"
      /\ cart'[o] = Zero
      /\ \A x \in Owners \ {o} : cart'[x] = cart[x]
\* C18: the finalization that commits empties the cart of the order's owner
\* and leaves every other owner's cart unchanged.
C18_ClearsOwnerCart == [][C18_CommitClearsOwner]_vars

\* C18 witness: an owner's deferred order without the second product was
\* finalized; the owner had added the second product since, no other order of
\* the owner exists, the owner's cart is empty and the other owner's is not.
C18_Witness ==
  \E b \in Buyers :
    LET o == orders[b].owner IN
    /\ orders[b].status = "PLACED" /\ orders[b].session = b /\ finClears[b] = 1
    /\ orders[b].lines[2] = 0 /\ cartAdds[o][2] > 0
    /\ \A a \in Buyers \ {b} : orders[a] = NoOrder \/ orders[a].owner # o
    /\ cart[o] = Zero
    /\ \E x \in Owners \ {o} : cart[x] # Zero

----------------------------------------------------------------------------
\* C20: order creation with retry. In a step in which a checkout calls
\* createOrderWithRetry and the first k generated codes collide: for k < 5 the
\* call succeeds, creates exactly one order and has made exactly k + 1 insert
\* attempts; for k = 5 it fails after exactly 5 attempts, no order is created.
C20_Collisions(gen) ==
  IF \A a \in AttemptIndexes : gen[a] \in StoredCodes THEN 5
  ELSE CHOOSE k \in AttemptIndexes :
         /\ gen[k] \notin StoredCodes
         /\ \A a \in AttemptIndexes : a < k => gen[a] \in StoredCodes
C20_Calls(b) ==
  /\ Steps(b) /\ proc[b].res = "none"
  /\ proc'[b].res \in {"created", "conflict", "error"}
  /\ proc'[b].fault = NoFault
C20_CreateStep ==
  \A b \in Buyers :
    C20_Calls(b) =>
      LET gen == proc'[b].gen
          k == C20_Collisions(gen)
      IN
      IF k < 5
      THEN /\ proc'[b].res = "created" /\ proc'[b].attempts = k + 1
           /\ orders[b] = NoOrder /\ orders'[b] # NoOrder
           /\ orders'[b].code = gen[k]
           /\ \A a \in Buyers \ {b} : orders'[a] = orders[a]
      ELSE /\ proc'[b].res = "conflict" /\ proc'[b].attempts = 5
           /\ orders' = orders
\* C20: with k < 5 collisions createOrderWithRetry creates one order in k + 1
\* attempts; with 5 collisions it fails after 5 attempts and creates none.
C20_RetryBound == [][C20_CreateStep]_vars

\* C20 witness: one checkout has created its order at the fifth attempt, and
\* another has failed after five attempts, leaving no order.
C20_Witness ==
  \E a, b \in Buyers :
    /\ proc[a].res = "created" /\ proc[a].attempts = 5 /\ orders[a] # NoOrder
    /\ proc[b].res = "conflict" /\ proc[b].attempts = 5 /\ orders[b] = NoOrder

----------------------------------------------------------------------------
\* C21 as claimed: a checkout whose createOrderWithRetry found all 5 generated
\* codes stored gets the dedicated error, HttpError 500 "Unable to generate a
\* unique order code.", not the store's uniqueness violation.
C21_Original ==
  \A b \in Buyers :
    (proc[b].res = "conflict" /\ proc[b].attempts = 5) => proc[b].err = "unable"

----------------------------------------------------------------------------
\* C22: createOrderWithRetry retries only on a uniqueness violation of
\* orderCode. When the insert of an attempt meets another store error, a
\* uniqueness violation on stripeSessionId included, the call throws that
\* error at once: that attempt is its last, and no order is created.
C22_FaultStep ==
  \A b \in Buyers :
    LET gen == proc'[b].gen
        fault == proc'[b].fault
    IN
    (/\ Steps(b) /\ proc[b].res = "none"
     /\ proc'[b].res \in {"created", "conflict", "error"}
     /\ fault # NoFault
     /\ \A a \in AttemptIndexes : a < fault.at => gen[a] \in StoredCodes)
      => /\ proc'[b].res = "error" /\ proc'[b].err = fault.kind
         /\ proc'[b].attempts = fault.at + 1
         /\ orders' = orders
\* C22: an error other than an orderCode conflict is thrown on its first
\* occurrence, with no further insert attempt.
C22_RetryOnlyOnCode == [][C22_FaultStep]_vars

\* C22 witness: one checkout met a stripeSessionId violation at its fifth
\* attempt, after four code collisions; another met an error at its first.
C22_Witness ==
  \E a, b \in Buyers :
    /\ proc[a].err = "P2002session" /\ proc[a].attempts = 5 /\ orders[a] = NoOrder
    /\ proc[b].err = "other" /\ proc[b].attempts = 1 /\ orders[b] = NoOrder

----------------------------------------------------------------------------
\* C30: in every reachable state no two orders share an orderCode, no order
\* has the code of an order stored before, and no two orders share a
\* payment-session identifier, whatever codes were generated and retried.
C30_UniqueCodes ==
  \A a, b \in Buyers :
    (orders[a] # NoOrder /\ orders[b] # NoOrder) =>
      /\ orders[a].code \notin OldCodes
      /\ a # b => orders[a].code # orders[b].code
      /\ (a # b /\ orders[a].session # "none") => orders[a].session # orders[b].session

\* C30 witness: two orders exist, one of them for a provider session and
\* created at the fifth attempt, after four collisions with a stored code.
C30_Witness ==
  \E a, b \in Buyers :
    /\ a # b /\ orders[a] # NoOrder /\ orders[b] # NoOrder
    /\ orders[a].session = a /\ proc[a].attempts = 5
    /\ \A i \in AttemptIndexes : i < 4 => proc[a].gen[i] \in OldCodes

----------------------------------------------------------------------------
\* C23: the shipping computed for a subtotal is 0 for a subtotal of 0, 12 for
\* a subtotal above 0 and up to 250, and 0 for a subtotal above 250.
C23_ShippingTiers ==
  quote.shipping # NoShipping =>
    /\ quote.subtotal = 0 => quote.shipping = 0
    /\ (0 < quote.subtotal /\ quote.subtotal <= 250) => quote.shipping = 12
    /\ quote.subtotal > 250 => quote.shipping = 0

\* C23 witness: the shipping for a subtotal of exactly 250 was computed.
C23_Witness == quote.subtotal = 250 /\ quote.shipping = 12


----------------------------------------------------------------------------
\* C24 as claimed: a webhook handler that has completed for an event whose
\* signature was verified has acknowledged it with {received: true}, whatever
\* finalization and compensation did.
C24_Original ==
  \A f \in Callers :
    (proc[f].kind = "webhook" /\ proc[f].sig = "valid" /\ proc[f].pc = "done")
      => proc[f].out = "received"

----------------------------------------------------------------------------
\* C25: when the refund call of the Compensator fails, the webhook handler
\* ends with the error in that step, having sent the refund request once
\* and leaving every order as it was; the handler then does nothing more, so
\* the refund is not retried and the order is not cancelled by it.
C25_RefundFailurePropagates ==
  [][\A f \in Callers :
       /\ (proc[f].err # "refundfailed" /\ proc'[f].err = "refundfailed") =>
            /\ proc[f].pc = "refund"
            /\ proc'[f].pc = "done" /\ proc'[f].out = "error"
            /\ orders' = orders
            /\ Cardinality({x \in refunds' : x.by = f}) = 1
       /\ proc[f].err = "refundfailed" =>
            /\ proc'[f] = proc[f]
            /\ {x \in refunds' : x.by = f} = {x \in refunds : x.by = f}]_vars

\* C25 witness: a webhook's refund call failed; the handler ended with the
\* error and the order is still PENDING_PAYMENT.
C25_Witness ==
  \E f \in Callers :
    /\ proc[f].err = "refundfailed" /\ proc[f].pc = "done" /\ proc[f].out = "error"
    /\ orders[proc[f].sid].status = "PENDING_PAYMENT"
    /\ RefundedBy(f)

----------------------------------------------------------------------------
\* C26: a webhook request whose signature is missing or invalid is rejected
\* in the step in which it arrives: it ends with the error, it never calls
\* finalizeStripeOrder, and no order, stock, cart or refund changes.
C26_BadSignatureRejected ==
  [][\A f \in Callers :
       (Steps(f) /\ proc'[f].sig \in {"invalid", "missing"}) =>
         /\ proc[f].pc = "idle"
         /\ proc'[f].pc = "done" /\ proc'[f].out = "error"
         /\ proc'[f].res = "badsignature" /\ proc'[f].sid = "none"
         /\ UNCHANGED <<stock, price, cart, orders, sessions, refunds, reserved>>]_vars

\* C26 witness: a delivery with a bad signature was rejected while an order
\* was waiting for its payment, and the order is still waiting.
C26_Witness ==
  \E f \in Callers, b \in Buyers :
    /\ proc[f].sig = "invalid" /\ proc[f].pc = "done" /\ proc[f].res = "badsignature"
    /\ orders[b] # NoOrder /\ orders[b].status = "PENDING_PAYMENT"
    /\ refunds = {}

----------------------------------------------------------------------------
\* C27: a handler enters compensation only as a webhook whose finalization
\* failed on stock; refunds are sent and orders are cancelled only by such a
\* handler; a finalization that fails as not found or with another error, or
\* on stock for a confirm call, ends the handler with the error, without a
\* refund and with every order as it was.
C27_CompensationOnlyOnStockFailure ==
  [][/\ \A f \in Callers :
          (Steps(f) /\ proc'[f].pc \in {"refund", "cancel"}) =>
            proc'[f].kind = "webhook" /\ proc'[f].res = "outofstock"
     /\ (refunds' # refunds
           \/ \E b \in Buyers : orders'[b].status = "CANCELLED" /\ orders[b].status # "CANCELLED") =>
          \E f \in Callers :
            /\ Steps(f) /\ proc[f].pc \in {"refund", "cancel"}
            /\ proc[f].kind = "webhook" /\ proc[f].res = "outofstock"
     /\ \A f \in Callers :
          (FailsNow(f, {"notfound", "other", "outofstock"})
             /\ ~(proc'[f].kind = "webhook" /\ proc'[f].res = "outofstock")) =>
            /\ proc'[f].pc = "done" /\ proc'[f].out = "error"
            /\ orders' = orders /\ refunds' = refunds]_vars

\* C27 witness: a confirm call failed on stock after the other session's
\* order was finalized; the handler ended with the error, no refund was sent
\* and the confirm call's order is still PENDING_PAYMENT.
C27_Witness ==
  \E f, g \in Callers :
    /\ proc[f].kind = "confirm" /\ proc[f].res = "outofstock"
    /\ proc[f].pc = "done" /\ proc[f].out = "error"
    /\ orders[proc[f].sid].status = "PENDING_PAYMENT"
    /\ proc[g].res = "PLACED" /\ proc[g].sid # proc[f].sid
    /\ refunds = {}

----------------------------------------------------------------------------
\* C28: a checkout of either path that arrives with an empty cart ends with
\* the empty-cart error, and one that arrives with a cart holding a line
\* larger than the product's stock ends with the insufficient-stock error
\* naming a product whose line is too large; in both cases no order and no
\* provider session is created for it, in that step or later.
C28_PreCheckRejects ==
  [][\A b \in Buyers :
       /\ (Steps(b) /\ proc[b].pc = "idle") =>
            LET c == cart[proc'[b].owner] IN
            /\ c = Zero =>
                 /\ proc'[b].pc = "done" /\ proc'[b].res = "empty"
                 /\ orders' = orders /\ sessions' = sessions
            /\ (c # Zero /\ \E p \in Products : c[p] > stock[p]) =>
                 /\ proc'[b].pc = "done" /\ proc'[b].res = "insufficient"
                 /\ proc'[b].named \in Products
                 /\ c[proc'[b].named] > stock[proc'[b].named]
                 /\ orders' = orders /\ sessions' = sessions
       /\ proc[b].res \in {"empty", "insufficient"} =>
            /\ proc'[b] = proc[b]
            /\ orders'[b] = NoOrder /\ b \notin sessions']_vars

\* C28 witness: a deferred checkout was rejected naming the second product
\* and an immediate one naming the first; neither has an order, and no
\* provider session exists.
C28_Witness ==
  \E a, b \in Buyers :
    /\ proc[a].kind = "deferred" /\ proc[a].res = "insufficient" /\ proc[a].named = 2
    /\ proc[b].kind = "immediate" /\ proc[b].res = "insufficient" /\ proc[b].named = 1
    /\ orders[a] = NoOrder /\ orders[b] = NoOrder /\ sessions = {}

----------------------------------------------------------------------------
\* C29: once an order exists, no step changes anything of it but its status
\* (its lines, unit prices, subtotal, shipping, total, owner, session and code
\* stay as created), and the step in which a finalization commits takes from
\* the stock exactly the quantities of the order's lines, whatever the
\* owner's cart and the products' prices have become.
C29_SnapshotImmutable ==
  [][/\ \A b \in Buyers :
          orders[b] # NoOrder =>
            /\ orders'[b] # NoOrder
            /\ [orders'[b] EXCEPT !.status = orders[b].status] = orders[b]
     /\ \A f \in Callers :
          (Steps(f) /\ proc[f].pc = "reserve" /\ proc'[f].res = "PLACED") =>
            \A p \in Products :
              stock[p] - stock'[p] = orders[proc[f].sid].lines[p]]_vars

\* C29 witness: an order was finalized after its owner added to the cart and
\* after a price changed: the stock taken for it is that of its lines, and
\* its unit prices are those of its creation, not the current ones.
C29_Witness ==
  \E b \in Buyers :
    /\ orders[b] # NoOrder /\ orders[b].status = "PLACED"
    /\ orders[b].lines = [p \in Products |-> IF p = 1 THEN 1 ELSE 0]
    /\ finDec[b] = orders[b].lines
    /\ cartAdds[orders[b].owner] # Zero /\ cart[orders[b].owner] = Zero
    /\ orders[b].unit # price
    /\ orders[b].subtotal = Subtotal(orders[b].lines, orders[b].unit)


----------------------------------------------------------------------------
\* C31 as claimed: every step an admin delete takes for a product while an
\* order line references the product refuses the delete with a conflict and
\* leaves the product and the cart items as they are.
C31_Original ==
  [][(del' # del /\ OrderLineCount(del'.product) > 0) =>
       /\ del'.out = "conflict"
       /\ cart' = cart /\ deleted' = deleted]_vars


----------------------------------------------------------------------------
\* The quantity of product p in the lines of the orders whose status is in S.
HeldBy(p, S) ==
  SumOver(Buyers, [b \in Buyers |->
    IF orders[b] # NoOrder /\ orders[b].status \in S THEN orders[b].lines[p] ELSE 0])

\* C32: stock conservation. With no admin edit, in every committed state each
\* product's initial stock equals its current stock plus the quantities of
\* its lines in the PLACED orders; the lines of PENDING_PAYMENT and CANCELLED
\* orders hold no stock.
C32_StockConserved ==
  \A p \in Products : initStock[p] = stock[p] + HeldBy(p, {"PLACED"})

\* C32 witness: one order is PLACED and holds stock, another order for the
\* same product is CANCELLED and holds none: the product is sold out.
C32_Witness ==
  \E a, b \in Buyers :
    /\ orders[a] # NoOrder /\ orders[a].status = "PLACED"
    /\ orders[b] # NoOrder /\ orders[b].status = "CANCELLED"
    /\ \E p \in Products :
         /\ orders[a].lines[p] > 0 /\ orders[b].lines[p] > 0
         /\ stock[p] = 0 /\ initStock[p] = orders[a].lines[p]


----------------------------------------------------------------------------
\* C33 as claimed: when one owner's cart is checked out by two immediate
\* checkouts and the stock suffices for both, at most one of them creates an
\* order, and the stock taken is that of the cart's lines once.
C33_Original ==
  \A a, b \in Buyers :
    (/\ a # b
     /\ proc[a].kind = "immediate" /\ proc[b].kind = "immediate"
     /\ proc[a].owner = proc[b].owner
     /\ proc[a].pc = "done" /\ proc[b].pc = "done"
     /\ proc[a].res = "created") =>
       /\ orders[b] = NoOrder
       /\ reserved = orders[a].lines


----------------------------------------------------------------------------
\* C34 as claimed: no order is PLACED while a refund has been requested for
\* its session, and once the handler that requested the refund has completed
\* with the event acknowledged, the order is CANCELLED.
C34_Original ==
  \A r \in refunds :
    /\ orders[r.session].status # "PLACED"
    /\ (proc[r.by].pc = "done" /\ proc[r.by].out = "received") =>
         orders[r.session].status = "CANCELLED"


----------------------------------------------------------------------------
\* A payment-succeeded event with a valid signature was delivered for session
\* s while its order was PENDING_PAYMENT.
Delivered(s) ==
  \E f \in Callers :
    /\ proc[f].kind = "webhook" /\ proc[f].sig = "valid"
    /\ proc[f].sid = s /\ proc[f].began = "PENDING_PAYMENT"

\* A refund call for session s failed.
RefundFailed(s) ==
  \E f \in Callers : proc[f].sid = s /\ proc[f].err = "refundfailed"

\* C35: liveness of the deferred path. Whenever a payment-succeeded event with
\* a valid signature has been delivered for an order in PENDING_PAYMENT, then,
\* if every handler runs to completion and no refund call for the session
\* fails, the order is eventually PLACED or CANCELLED.
C35_Progress ==
  \A s \in Buyers :
    Delivered(s) ~>
      (orders[s].status \in {"PLACED", "CANCELLED"} \/ RefundFailed(s))

\* C35 witness: a delivery found the order PENDING_PAYMENT, failed on stock,
\* its refund call succeeded, and the order has become CANCELLED.
C35_Witness ==
  \E f \in Callers :
    /\ proc[f].kind = "webhook" /\ proc[f].sig = "valid"
    /\ proc[f].began = "PENDING_PAYMENT" /\ proc[f].res = "outofstock"
    /\ proc[f].pc = "done" /\ proc[f].pi /\ proc[f].err = "none"
    /\ orders[proc[f].sid].status = "CANCELLED"


----------------------------------------------------------------------------
\* C36 as claimed: once the deferred checkout that created a provider session
\* has answered, whether it succeeded or failed, an order carrying the
\* session's id exists.
C36_Original ==
  \A s \in sessions : proc[s].pc = "done" => orders[s] # NoOrder


----------------------------------------------------------------------------
\* The sum over a session's line items of unit_amount * quantity.
SessionAmount(items) ==
  SumOver(Products, [p \in Products |->
    items.products[p].unit_amount * items.products[p].quantity])
  + (IF items.shipping = <<>> THEN 0
     ELSE items.shipping[1].unit_amount * items.shipping[1].quantity)

\* C37: for every order created with a provider session, the sum over the
\* session's line items of unit_amount * quantity is 100 * order.total, and
\* the session has a shipping line item exactly when the order's shipping is
\* above 0.
C37_SessionAmount ==
  \A b \in Buyers :
    (orders[b] # NoOrder /\ orders[b].session # "none") =>
      /\ SessionAmount(lineItems[b]) = 100 * orders[b].total
      /\ (lineItems[b].shipping # <<>>) <=> (orders[b].shipping > 0)
      /\ \A p \in Products : lineItems[b].products[p].quantity = orders[b].lines[p]

\* C37 witness: two sessions have orders, one with a shipping line item and
\* one without.
C37_Witness ==
  \E a, b \in Buyers :
    /\ orders[a] # NoOrder /\ orders[a].session # "none" /\ orders[a].shipping = 12
    /\ Len(lineItems[a].shipping) = 1
    /\ orders[b] # NoOrder /\ orders[b].session # "none" /\ orders[b].shipping = 0
    /\ lineItems[b].shipping = <<>> /\ orders[b].total > 250


----------------------------------------------------------------------------
\* C38: a confirm call for a session of the caller's that the provider does
\* not report as paid answers paid: false in the step in which it arrives,
\* changes no order, stock or cart, and does nothing more; a confirm call that
\* finalizes and gets an order back answers paid: true exactly when that
\* order's status is PLACED or FULFILLED.
C38_ConfirmOnlyPaid ==
  [][\A f \in Callers :
       /\ (Steps(f) /\ proc[f].pc = "idle" /\ proc'[f].kind = "confirm"
              /\ proc'[f].payment # "paid" /\ proc'[f].res # "notfound") =>
            /\ proc'[f].pc = "done" /\ proc'[f].out = "notpaid"
            /\ proc'[f].res = "unpaid"
            /\ UNCHANGED <<orders, stock, cart, refunds, reserved>>
       /\ (proc[f].kind = "confirm" /\ proc[f].payment # "paid") =>
            proc'[f] = proc[f]
       /\ (Steps(f) /\ proc'[f].kind = "confirm" /\ proc'[f].pc = "done"
              /\ Returned(proc'[f])) =>
            /\ proc'[f].payment = "paid"
            /\ (proc'[f].out = "paid") <=> (proc'[f].res \in {"PLACED", "FULFILLED"})
            /\ (proc'[f].out = "notpaid") <=> (proc'[f].res \notin {"PLACED", "FULFILLED"})]_vars

\* C38 witness: a confirm call for a session not paid answered paid: false
\* and left its order PENDING_PAYMENT; another, for a paid session, finalized
\* its order and answered paid: true.
C38_Witness ==
  \E f, g \in Callers :
    /\ proc[f].kind = "confirm" /\ proc[f].payment = "unpaid"
    /\ proc[f].res = "unpaid" /\ proc[f].out = "notpaid"
    /\ orders[proc[f].sid].status = "PENDING_PAYMENT"
    /\ proc[g].kind = "confirm" /\ proc[g].payment = "paid"
    /\ proc[g].res = "PLACED" /\ proc[g].out = "paid"

----------------------------------------------------------------------------
\* The requests of key k answered so far in the window that is open for it.
InWindow(k) == windows[k].open /\ now < windows[k].openedAt + WindowMs

\* C39: rate limiter admission bound. For every key, the requests passed on
\* in one window (from the request that opened it until windowMs later) are at
\* most max(options.max, 1); a window is replaced only once it is over; a
\* request of a key that arrives in the key's window after max requests were
\* passed is answered 429 with a Retry-After of at least 1 and is not passed
\* on; and a request of one key leaves the other keys' entries as they are.
C39_Bound == \A k \in Keys : windows[k].admitted <= Max(options.max, 1)
C39_RequestStep ==
  \A k \in Keys :
    (entries'[k] # entries[k]) =>
      /\ \A j \in Keys \ {k} : entries'[j] = entries[j] /\ windows'[j] = windows[j]
      /\ reply'.key = k
      /\ (windows'[k].openedAt # windows[k].openedAt /\ windows[k].open) =>
           now >= windows[k].openedAt + Max(options.windowMs, 1000)
      /\ (InWindow(k) /\ windows[k].admitted >= Max(options.max, 1)) =>
           /\ ~reply'.passed /\ reply'.status = 429
           /\ reply'.retryAfter >= 1
           /\ 1000 * reply'.retryAfter >= entries[k].resetAt - now
           /\ windows'[k].admitted = windows[k].admitted
           /\ windows'[k].openedAt = windows[k].openedAt
      /\ reply'.passed <=> (reply'.status # 429)
C39_AdmissionBound == []C39_Bound /\ [][C39_RequestStep]_vars

\* C39 witness: max is 2; a key had two requests passed and a third refused
\* in its window, and the other key's request was passed meanwhile.
C39_Witness ==
  /\ options.max = 2
  /\ windows["k1"].admitted = 2 /\ entries["k1"].count > 2
  /\ reply.key = "k2" /\ reply.passed /\ reply.at < entries["k1"].resetAt
  /\ entries["k2"].count = 1

----------------------------------------------------------------------------
\* C40: rate limiter recovery. A request of a key whose window is over (it
\* arrives at or after the entry's resetAt) is passed on and starts a new
\* window with count 1 and resetAt windowMs later, also when the key was
\* refused before; and a refused request leaves the window's resetAt as it is.
C40_RequestStep ==
  \A k \in Keys :
    (entries'[k] # entries[k]) =>
      /\ (entries[k] # NoEntry /\ now >= entries[k].resetAt) =>
           /\ reply'.passed /\ reply'.key = k
           /\ entries'[k] = [count |-> 1, resetAt |-> now + Max(options.windowMs, 1000)]
      /\ ~reply'.passed => entries'[k].resetAt = entries[k].resetAt
      /\ (entries[k] # NoEntry /\ now < entries[k].resetAt) =>
           entries'[k].resetAt = entries[k].resetAt
C40_Recovery == [][C40_RequestStep]_vars

\* C40 witness: a key that had been refused was passed on again by a request
\* arriving exactly at the old window's resetAt, which opened a new window.
C40_Witness ==
  \E k \in Keys :
    /\ reply.key = k /\ reply.passed /\ reply.at > 0
    /\ windows[k].openedAt = reply.at /\ entries[k].count = 1
    /\ entries[k].resetAt = reply.at + Max(options.windowMs, 1000)
    /\ reply.at = Max(options.windowMs, 1000)
    /\ windows[k].refused
    /\ now = reply.at


====
